---- MODULE Spec2Model ----
(***************************************************************************)
(* A model of osm-replication-rust.                                        *)
(*                                                                         *)
(*   SpecStore   the OsmBin store (src/src/osmbin.rs): node.crd, way.idx,   *)
(*               way.data, way.free, the relation files, and one OsmBin    *)
(*               handle with its read cache (src/src/osmcache.rs).         *)
(*   SpecPipeline  Update::update (src/src/update.rs) and the per-region   *)
(*               generate_diff (src/src/diffs.rs), minute after minute.    *)
(*   SpecFilter  the regional filter (src/src/osmxml/filter.rs) over the   *)
(*               entities of one enriched change file.                     *)
(*   SpecBBox    the bounding-box pass (src/src/osmxml/bbox.rs) over the   *)
(*               entities of one change file.                              *)
(*   SpecDiff    the bbox pass, then a filter on the cache it filled.      *)
(*   SpecCache   the reads of an OsmCache (src/src/osmcache.rs).           *)
(*   SpecWays    the free list of way.data over writer and reader          *)
(*               sessions.                                                 *)
(*   SpecIds     writes of ids at the limit of the five-byte encoding.     *)
(*   SpecGaps    write_node and write_way in any order of ids.             *)
(*   SpecRels    relations of ids of nine and of ten decimal digits.       *)
(*   SpecPoly    the polygon tree loaded from a directory                  *)
(*               (src/src/diffs.rs, impl Poly).                            *)
(*   SpecTasks   the region tasks of one minute, side by side.             *)
(*   SpecGraph   read_relation_full (src/src/osm.rs) and check_database    *)
(*               on stored relation graphs.                                *)
(*   SpecConv    int_to_bytes5 and bytes5_to_int on one integer.           *)
(*   SpecDownload  the retry loop of Update::download.                     *)
(*   SpecBuf     BufReaderWriterRand (src/src/bufreaderwriter.rs) next to  *)
(*               the file it wraps.                                        *)
(*                                                                         *)
(* Option<T> is a sequence: None is <<>>, Some(x) is <<x>>.                 *)
(* A HashMap is a function whose DOMAIN is the set of its keys.            *)
(* Byte arrays are sequences of numbers 0..255, big-endian as in the code; *)
(* a string is the sequence of its bytes.                                  *)
(***************************************************************************)
EXTENDS Integers, Sequences, FiniteSets, TLC

(***************************************************************************)
(* Bounds of the model.                                                    *)
(***************************************************************************)
MaxNodeId == 2
MaxWayId == 1
MaxRelId == 1
MaxWayNodes == 2
MaxWayDataLen == 30
MaxCalls == 5
MaxSeq == 3
MaxRuns == 3
MaxEntries == 2
MaxNestRelId == 2
MaxFreeWayId == 3
MaxWayCalls == 7
IdByteValues == 4
MaxGraphCalls == 3
MaxOver == 3
MaxRequests == 6
BufCapacity == 2
MaxFileLen == 4
MaxBufCalls == 5
MaxGapId == 3

(***************************************************************************)
(* Program constants.                                                      *)
(***************************************************************************)
NODE_ID_SIZE == 5
WAY_PTR_SIZE == 5
NODE_CRD_SIZE == 8
COORD_SIZE == 4
NUM_NODES_SIZE == 2
CoordOffset == 1800000000
GapLimit == 4096
DASH == 45
LastTry == 4

None == <<>>
Some(x) == <<x>>

Max(a, b) == IF a >= b THEN a ELSE b

Zero(n) == [i \in 1..n |-> 0]

Range(seq) == { seq[i] : i \in 1..Len(seq) }

(***************************************************************************)
(* Big-endian conversions (u64::to_be_bytes / from_be_bytes and the        *)
(* helpers of OsmBin built on them).  Every number of the model is below   *)
(* 2^31, so the casts `as u32` of the code are exact on them.  The five    *)
(* bytes of an id or of an offset take IdByteValues values each in place   *)
(* of 256, which brings the limit 2^40 of the code down to IdLimit, within *)
(* the integers of the model.                                              *)
(***************************************************************************)
RECURSIVE Shr8(_, _)
Shr8(v, k) == IF k = 0 THEN v ELSE Shr8(v \div 256, k - 1)

to_be_bytes(v, n) == [i \in 1..n |-> Shr8(v, n - i) % 256]

RECURSIVE from_be_bytes(_)
from_be_bytes(d) ==
    IF d = <<>> THEN 0
    ELSE from_be_bytes(SubSeq(d, 1, Len(d) - 1)) * 256 + d[Len(d)]

RECURSIVE Pow(_, _)
Pow(b, e) == IF e = 0 THEN 1 ELSE b * Pow(b, e - 1)

\* 2_u64.pow(5 * 8)
IdLimit == Pow(IdByteValues, NODE_ID_SIZE)

bytes5_to_int(d) ==
    LET v == Zero(3) \o d
    IN  Pow(IdByteValues, 4) * v[4] + Pow(IdByteValues, 3) * v[5]
          + Pow(IdByteValues, 2) * v[6] + IdByteValues * v[7] + v[8]

\* if d > 2_u64.pow(5 * 8) { panic!(...) }
int_to_bytes5_panics(d) == d > IdLimit

\* d.to_be_bytes()[3..8]: the five low bytes
int_to_bytes5(d) ==
    [i \in 1..NODE_ID_SIZE |->
        (d \div Pow(IdByteValues, NODE_ID_SIZE - i)) % IdByteValues]

bytes4_to_int(d) == from_be_bytes(d)

int_to_bytes4(d) == to_be_bytes(d, COORD_SIZE)

bytes4_to_coord(d) == bytes4_to_int(d) - CoordOffset

\* As coord_to_bytes4, the coordinate stored as it is.
coord_unshifted(d) == int_to_bytes4(d)

coord_to_bytes4(d) == int_to_bytes4(d + CoordOffset)

bytes2_to_int(d) == from_be_bytes(d)

int_to_bytes2(d) == to_be_bytes(d, NUM_NODES_SIZE)

RECURSIVE DigitsRev(_)
DigitsRev(v) == IF v > 0 THEN <<v % 10>> \o DigitsRev(v \div 10) ELSE <<>>

Reverse(s) == [i \in 1..Len(s) |-> s[Len(s) + 1 - i]]

to_digits(v) ==
    LET digits == DigitsRev(v)
        padded == IF Len(digits) < 9
                  THEN digits \o Zero(9 - Len(digits))
                  ELSE digits
    IN  Reverse(padded)

join_nums(nums) == nums

\* relation/AAA/BBB/CCC
rel_path(id) ==
    LET relid_digits == to_digits(id)
    IN  << join_nums(SubSeq(relid_digits, 1, 3)),
           join_nums(SubSeq(relid_digits, 4, 6)),
           join_nums(SubSeq(relid_digits, 7, 9)) >>

(***************************************************************************)
(* Entities (src/src/osm.rs), restricted to the fields the store keeps.    *)
(***************************************************************************)
NodeIds == 1..MaxNodeId
WayIds == 1..MaxWayId
RelIds == 1..MaxRelId

\* (decimicro_lat, decimicro_lon)
Coords == { <<179031745, -628363074>>, <<0, 0>> }

Node(id, c) == [id |-> id, decimicro_lat |-> c[1], decimicro_lon |-> c[2]]

Nodes == { Node(id, c) : id \in NodeIds, c \in Coords }

\* nodes: Vec<u64>, empty for a <way> element without <nd>
WayNodeLists ==
    UNION { [1..k -> NodeIds] : k \in 0..MaxWayNodes }

Way(id, nodes) == [id |-> id, nodes |-> nodes]

Ways == { Way(id, nodes) : id \in WayIds, nodes \in WayNodeLists }

Member(t, r, role) == [type_ |-> t, ref_ |-> r, role |-> role]

MemberLists == { <<Member("node", 1, "")>>,
                 <<Member("way", 1, "outer"), Member("node", 1, "")>> }

\* tags: Option<Vec<(String, String)>>; the XML reader always yields Some.
NameTag == Some(<< <<"name", "a">> >>)

TagLists == { NameTag }

Relation(id, members, tags) == [id |-> id, members |-> members, tags |-> tags]

Relations ==
    { Relation(id, m, t) : id \in RelIds, m \in MemberLists, t \in TagLists }

Actions == {"Create", "Modify", "Delete"}

\* serde_json of a Relation: the renamed fields "member" and "tag".
relation_to_json(r) == [id |-> r.id, member |-> r.members, tag |-> r.tags]

json_to_relation(j) == [id |-> j.id, members |-> j.member, tags |-> j.tag]

(***************************************************************************)
(* OsmCache (src/src/osmcache.rs).                                         *)
(***************************************************************************)
EmptyMap == << >>

EmptyCache == [nodes |-> EmptyMap, ways |-> EmptyMap, relations |-> EmptyMap]

Insert(map, k, v) == (k :> v) @@ map

\* As cache_read_node, answering absent for every entry.
cache_read_none(cache, id) == None

\* OsmCache::read_*: the caller has checked contains_key.
cache_read_node(cache, id) ==
    IF cache.nodes[id] # None
    THEN Some(Node(id, cache.nodes[id][1]))
    ELSE None

cache_read_way(cache, id) ==
    IF cache.ways[id] # None
    THEN Some(Way(id, cache.ways[id][1]))
    ELSE None

cache_read_relation(cache, id) == cache.relations[id]

\* OsmCache::read_*: no entry for the id, panic!("... not found").
cache_panics_node(cache, id) == id \notin DOMAIN cache.nodes

cache_panics_way(cache, id) == id \notin DOMAIN cache.ways

cache_panics_relation(cache, id) == id \notin DOMAIN cache.relations

\* A read of the cache: whether it panics, and what it returns if not.
CacheResult(panic, ret) == [panic |-> panic, ret |-> ret]

\* As osmcache_read_node, answering absent for every entry.
osmcache_read_absent(cache, id) ==
    CacheResult(cache_panics_node(cache, id), None)

osmcache_read_node(cache, id) ==
    IF cache_panics_node(cache, id) THEN CacheResult(TRUE, None)
    ELSE CacheResult(FALSE, cache_read_node(cache, id))

osmcache_read_way(cache, id) ==
    IF cache_panics_way(cache, id) THEN CacheResult(TRUE, None)
    ELSE CacheResult(FALSE, cache_read_way(cache, id))

osmcache_read_relation(cache, id) ==
    IF cache_panics_relation(cache, id) THEN CacheResult(TRUE, None)
    ELSE CacheResult(FALSE, cache_read_relation(cache, id))

(***************************************************************************)
(* Files.  node.crd and way.idx are sparse files of fixed-size records,    *)
(* read and written only at multiples of the record size: a function from  *)
(* the record number to its bytes, and the file length.  way.data is a     *)
(* sequence of bytes (offset o is element o + 1).                          *)
(***************************************************************************)
RecAt(file, len, pos, size) ==
    IF pos + size <= len /\ (pos \div size) \in DOMAIN file
    THEN file[pos \div size]
    ELSE Zero(size)

PosAfterRead(len, pos, size) == IF pos + size <= len THEN pos + size ELSE pos

WriteRec(file, pos, size, rec) ==
    IF (pos \div size) \in DOMAIN file
    THEN [file EXCEPT ![pos \div size] = rec]
    ELSE file

ZeroFill(file, from, to, size) ==
    [i \in DOMAIN file |->
        IF from <= i * size /\ i * size < to THEN Zero(size) ELSE file[i]]

WriteAt(bytes, o, b) ==
    [i \in 1..Max(Len(bytes), o + Len(b)) |->
        IF o < i /\ i <= o + Len(b) THEN b[i - o]
        ELSE IF i <= Len(bytes) THEN bytes[i]
        ELSE 0]

CanReadExact(bytes, o, n) == o + n <= Len(bytes)

ReadExact(bytes, o, n) == SubSeq(bytes, o + 1, o + n)

(***************************************************************************)
(* OsmBin (src/src/osmbin.rs).  The operations are functions of a record s *)
(* holding the files, the handle `bin`, the value `ret` returned and the   *)
(* flag `panic`.  The fields prev_node_id and prev_way_id, which only feed *)
(* debug_assert!, and the statistics are left out.                         *)
(***************************************************************************)
ClosedBin ==
    [ mode |-> "Closed", way_free_data |-> EmptyMap,
      node_crd_init_size |-> 0, way_idx_init_size |-> 0, way_data_size |-> 0,
      node_crd_pos |-> 0, way_idx_pos |-> 0, way_data_pos |-> 0,
      cache |-> EmptyCache ]

\* As Push, leaving the map as it is.
PushNothing(map, k, v) == map

\* As Push, with the offset pushed twice.
PushTwice(map, k, v) ==
    Insert(map, k, (IF k \in DOMAIN map THEN map[k] ELSE <<>>) \o <<v, v>>)

\* way_free_data.entry(num_nodes).or_default().push(pos)
Push(map, k, v) ==
    Insert(map, k, (IF k \in DOMAIN map THEN map[k] ELSE <<>>) \o <<v>>)

RECURSIVE LoadFree(_)
LoadFree(lines) ==
    IF lines = <<>> THEN EmptyMap
    ELSE LET line == lines[Len(lines)]
         IN  Push(LoadFree(SubSeq(lines, 1, Len(lines) - 1)), line[2], line[1])

\* The lines of way.free, bucket after bucket (the order of the buckets is
\* the HashMap's; loading does not depend on it).
RECURSIVE DumpFree(_)
DumpFree(map) ==
    IF DOMAIN map = {} THEN <<>>
    ELSE LET k == CHOOSE x \in DOMAIN map : \A y \in DOMAIN map : x <= y
             rest == [x \in DOMAIN map \ {k} |-> map[x]]
         IN  [i \in 1..Len(map[k]) |-> <<map[k][i], k>>] \o DumpFree(rest)

new_any(s, mode) ==
    [s EXCEPT !.bin =
        [ mode |-> mode,
          way_free_data |->
              IF mode = "Write" THEN LoadFree(s.way_free) ELSE EmptyMap,
          node_crd_init_size |-> s.node_crd_len,
          way_idx_init_size |-> s.way_idx_len,
          way_data_size |-> Len(s.way_data),
          node_crd_pos |-> 0, way_idx_pos |-> 0, way_data_pos |-> 0,
          cache |-> EmptyCache ]]

\* impl Drop for OsmBin
drop(s) ==
    [s EXCEPT !.way_free = DumpFree(s.bin.way_free_data), !.bin = ClosedBin]

\* panic!: the stack unwinds and the handle is dropped.
Panic(s) == [drop(s) EXCEPT !.panic = TRUE]

read_node(s, id) ==
    IF id \in DOMAIN s.bin.cache.nodes
    THEN [s EXCEPT !.ret = cache_read_node(s.bin.cache, id)]
    ELSE
      LET node_crd_addr == id * NODE_CRD_SIZE
          cur_position == s.bin.node_crd_pos
          diff == node_crd_addr - cur_position
          len == s.node_crd_len
          \* a failed read_exact has consumed the file up to its end
          pos0 == IF cur_position = node_crd_addr THEN node_crd_addr
                  ELSE IF diff > 0 /\ diff < GapLimit
                       THEN IF node_crd_addr <= len THEN node_crd_addr
                            ELSE Max(cur_position, len) + diff
                       ELSE node_crd_addr
          buffer == RecAt(s.node_crd, len, pos0, NODE_CRD_SIZE)
          lat_buffer == SubSeq(buffer, 1, COORD_SIZE)
          lon_buffer == SubSeq(buffer, COORD_SIZE + 1, NODE_CRD_SIZE)
          pos1 == PosAfterRead(len, pos0, NODE_CRD_SIZE)
          crd == << bytes4_to_coord(lat_buffer), bytes4_to_coord(lon_buffer) >>
      IN  IF lat_buffer = Zero(COORD_SIZE) /\ lon_buffer = Zero(COORD_SIZE)
          THEN [s EXCEPT !.bin.node_crd_pos = pos1,
                         !.bin.cache.nodes = Insert(@, id, None),
                         !.ret = None]
          ELSE [s EXCEPT !.bin.node_crd_pos = pos1,
                         !.bin.cache.nodes = Insert(@, id, Some(crd)),
                         !.ret = Some(Node(id, crd))]

read_way(s, id) ==
    IF id \in DOMAIN s.bin.cache.ways
    THEN [s EXCEPT !.ret = cache_read_way(s.bin.cache, id)]
    ELSE
      LET way_idx_addr == id * WAY_PTR_SIZE
          buffer == RecAt(s.way_idx, s.way_idx_len, way_idx_addr, WAY_PTR_SIZE)
          idx_pos == PosAfterRead(s.way_idx_len, way_idx_addr, WAY_PTR_SIZE)
          way_data_addr == bytes5_to_int(buffer)
          count == ReadExact(s.way_data, way_data_addr, NUM_NODES_SIZE)
          num_nodes == bytes2_to_int(count)
          first == way_data_addr + NUM_NODES_SIZE
          raw == [i \in 1..num_nodes |->
                    ReadExact(s.way_data, first + (i - 1) * NODE_ID_SIZE,
                              NODE_ID_SIZE)]
          nodes == [i \in 1..num_nodes |-> bytes5_to_int(raw[i])]
      IN  IF buffer = Zero(WAY_PTR_SIZE)
          THEN [s EXCEPT !.bin.way_idx_pos = idx_pos,
                         !.bin.cache.ways = Insert(@, id, None),
                         !.ret = None]
          ELSE IF \/ ~CanReadExact(s.way_data, way_data_addr, NUM_NODES_SIZE)
                  \/ count = Zero(NUM_NODES_SIZE)
                  \/ ~CanReadExact(s.way_data, first, num_nodes * NODE_ID_SIZE)
                  \/ \E i \in 1..num_nodes : raw[i] = Zero(NODE_ID_SIZE)
          THEN Panic(s)
          ELSE [s EXCEPT !.bin.way_idx_pos = idx_pos,
                         !.bin.way_data_pos = first + num_nodes * NODE_ID_SIZE,
                         !.bin.cache.ways = Insert(@, id, Some(nodes)),
                         !.ret = Some(Way(id, nodes))]

read_relation(s, id) ==
    IF id \in DOMAIN s.bin.cache.relations
    THEN [s EXCEPT !.ret = cache_read_relation(s.bin.cache, id)]
    ELSE
      LET path == rel_path(id)
      IN  IF path \notin DOMAIN s.relation
          THEN [s EXCEPT !.bin.cache.relations = Insert(@, id, None),
                         !.ret = None]
          ELSE LET u == json_to_relation(s.relation[path])
               IN  [s EXCEPT !.bin.cache.relations = Insert(@, id, Some(u)),
                             !.ret = Some(u)]

write_node(s, node) ==
    LET lat == coord_to_bytes4(node.decimicro_lat)
        lon == coord_to_bytes4(node.decimicro_lon)
        node_crd_addr == node.id * NODE_CRD_SIZE
        cur_position == s.bin.node_crd_pos
        diff == node_crd_addr - cur_position
        pad == /\ cur_position # node_crd_addr
               /\ s.bin.node_crd_init_size < cur_position
               /\ s.bin.node_crd_init_size < node_crd_addr
               /\ diff > 0
               /\ diff < GapLimit
        padded == IF pad
                  THEN ZeroFill(s.node_crd, cur_position, node_crd_addr,
                                NODE_CRD_SIZE)
                  ELSE s.node_crd
    IN  [s EXCEPT !.node_crd =
                      WriteRec(padded, node_crd_addr, NODE_CRD_SIZE, lat \o lon),
                  !.node_crd_len = Max(@, node_crd_addr + NODE_CRD_SIZE),
                  !.bin.node_crd_pos = node_crd_addr + NODE_CRD_SIZE]

update_node(s, node, action) ==
    IF action = "Delete"
    THEN [s EXCEPT !.node_crd = WriteRec(@, node.id * NODE_CRD_SIZE,
                                         NODE_CRD_SIZE, Zero(NODE_CRD_SIZE)),
                   !.node_crd_len = Max(@, (node.id + 1) * NODE_CRD_SIZE),
                   !.bin.node_crd_pos = (node.id + 1) * NODE_CRD_SIZE]
    ELSE write_node(s, node)

\* update_way with Action::Delete
delete_way(s, way) ==
    LET way_idx_addr == way.id * WAY_PTR_SIZE
        buffer == RecAt(s.way_idx, s.way_idx_len, way_idx_addr, WAY_PTR_SIZE)
        idx_pos == PosAfterRead(s.way_idx_len, way_idx_addr, WAY_PTR_SIZE)
        way_data_addr == bytes5_to_int(buffer)
        count == ReadExact(s.way_data, way_data_addr, NUM_NODES_SIZE)
        num_nodes == bytes2_to_int(count)
    IN  IF buffer = Zero(WAY_PTR_SIZE)
        THEN [s EXCEPT !.bin.way_idx_pos = idx_pos]
        ELSE IF \/ ~CanReadExact(s.way_data, way_data_addr, NUM_NODES_SIZE)
                \/ count = Zero(NUM_NODES_SIZE)
        THEN Panic(s)
        ELSE [s EXCEPT
                !.bin.way_free_data = Push(@, num_nodes, way_data_addr),
                !.way_data = WriteAt(@, way_data_addr, Zero(NUM_NODES_SIZE)),
                !.bin.way_data_pos = way_data_addr + NUM_NODES_SIZE,
                !.way_idx = WriteRec(@, way_idx_addr, WAY_PTR_SIZE,
                                     Zero(WAY_PTR_SIZE)),
                !.way_idx_len = Max(@, way_idx_addr + WAY_PTR_SIZE),
                !.bin.way_idx_pos = way_idx_addr + WAY_PTR_SIZE]

write_way(s, way) ==
    LET way_idx_addr == way.id * WAY_PTR_SIZE
        \* Only need to delete way if it could be inside file
        s1 == IF way_idx_addr < s.bin.way_idx_init_size
              THEN delete_way(s, way)
              ELSE s
        num_nodes == Len(way.nodes)
        bucket == IF num_nodes \in DOMAIN s1.bin.way_free_data
                  THEN s1.bin.way_free_data[num_nodes]
                  ELSE <<>>
        way_data_addr == IF bucket # <<>> THEN bucket[Len(bucket)]
                         ELSE s1.bin.way_data_size
        free1 == IF bucket # <<>>
                 THEN Insert(s1.bin.way_free_data, num_nodes,
                             SubSeq(bucket, 1, Len(bucket) - 1))
                 ELSE s1.bin.way_free_data
        record == int_to_bytes2(num_nodes)
                  \o [i \in 1..(num_nodes * NODE_ID_SIZE) |->
                        int_to_bytes5(way.nodes[((i - 1) \div NODE_ID_SIZE) + 1])
                            [((i - 1) % NODE_ID_SIZE) + 1]]
        data_pos == way_data_addr + Len(record)
        \* the first node id that int_to_bytes5 refuses, if any: the count
        \* and the ids before it are written by then
        refused == { i \in 1..num_nodes : int_to_bytes5_panics(way.nodes[i]) }
        first == CHOOSE i \in refused : \A j \in refused : i <= j
        partial == SubSeq(record, 1, NUM_NODES_SIZE + (first - 1) * NODE_ID_SIZE)
        cur_position == s1.bin.way_idx_pos
        diff == way_idx_addr - cur_position
        pad == /\ cur_position # way_idx_addr
               /\ s1.bin.way_idx_init_size < cur_position
               /\ s1.bin.way_idx_init_size < way_idx_addr
               /\ diff > 0
               /\ diff < GapLimit
        padded == IF pad
                  THEN ZeroFill(s1.way_idx, cur_position, way_idx_addr,
                                WAY_PTR_SIZE)
                  ELSE s1.way_idx
    IN  IF s1.panic THEN s1
        ELSE IF refused # {}
        THEN Panic([s1 EXCEPT
                      !.bin.way_free_data = free1,
                      !.way_data = WriteAt(@, way_data_addr, partial)])
        ELSE [s1 EXCEPT
                !.bin.way_free_data = free1,
                !.way_data = WriteAt(@, way_data_addr, record),
                !.bin.way_data_pos = data_pos,
                !.way_idx = WriteRec(padded, way_idx_addr, WAY_PTR_SIZE,
                                     int_to_bytes5(way_data_addr)),
                !.way_idx_len = Max(@, way_idx_addr + WAY_PTR_SIZE),
                !.bin.way_idx_pos = way_idx_addr + WAY_PTR_SIZE,
                !.bin.way_data_size = Max(@, data_pos)]

update_way(s, way, action) ==
    IF action = "Delete" THEN delete_way(s, way) ELSE write_way(s, way)

write_relation(s, rel) ==
    [s EXCEPT !.relation = Insert(@, rel_path(rel.id), relation_to_json(rel))]

update_relation(s, rel, action) ==
    IF action = "Delete"
    THEN [s EXCEPT !.relation =
                       [p \in DOMAIN @ \ {rel_path(rel.id)} |-> @[p]]]
    ELSE write_relation(s, rel)

(***************************************************************************)
(* A change file is the sequence of its entities, each with the action of  *)
(* the block it stands in; OsmUpdate::update hands them to update_* in     *)
(* file order.                                                             *)
(***************************************************************************)
Entry(kind, e, action) == [kind |-> kind, e |-> e, action |-> action]

update_entry(s, x) ==
    IF s.panic THEN s
    ELSE IF x.kind = "node" THEN update_node(s, x.e, x.action)
    ELSE IF x.kind = "way" THEN update_way(s, x.e, x.action)
    ELSE update_relation(s, x.e, x.action)

RECURSIVE update(_, _)
update(s, change) ==
    IF change = <<>> THEN s
    ELSE update_entry(update(s, SubSeq(change, 1, Len(change) - 1)),
                      change[Len(change)])

(***************************************************************************)
(* State of the store.                                                     *)
(***************************************************************************)
VARIABLES
    node_crd,       \* node.crd: record number -> 8 bytes
    node_crd_len,   \* length of node.crd
    way_idx,        \* way.idx: record number -> 5 bytes
    way_idx_len,    \* length of way.idx
    way_data,       \* way.data: bytes
    way_free,       \* way.free: lines <<offset, num_nodes>>
    relation,       \* relation/AAA/BBB/CCC: path -> file content
    osmbin,         \* the OsmBin handle
    ret,            \* what the last read returned
    panicked,       \* the process panicked
    lastop,         \* the last call made on the store
    written,        \* per entity: what the last write or delete left on it
    once,           \* after an update: the change file and the files it left
    calls           \* number of calls made on the store so far

storeVars == << node_crd, node_crd_len, way_idx, way_idx_len, way_data,
                way_free, relation, osmbin, ret, panicked, lastop, written,
                once, calls >>

(***************************************************************************)
(* State of the pipeline (src/src/update.rs, src/src/diffs.rs).            *)
(***************************************************************************)
VARIABLES
    pc,             \* where Update::update stands
    cur_state,      \* sequence number read from planet/minute/state.txt
    remote_raw,     \* sequence number of the remote state.txt
    max_state,      \* the configured maximum: Option<u64>
    remote_state,   \* the remote sequence number after clamping
    n,              \* the minute being processed
    planet_state,   \* planet/minute/state.txt: None, or Some(sequence)
    bbox_state,     \* bbox/minute/state.txt
    region_state,   \* <region>/minute/state.txt
    task,           \* per region: how far generate_diff of minute n is
    store_seq,      \* per minute: how much of its change the store holds
    enriched,       \* the bbox pass of minute n has finished
    stale_read,     \* a read of minute n saw a store holding change n
    processed,      \* the minutes this run has started, in order
    result,         \* how the last run ended
    runs,           \* number of runs started so far
    last_seq,       \* the last sequence number state.txt reported
    change_file     \* per tree and minute: <n_split>.osc.gz of the tree

pipelineVars == << pc, cur_state, remote_raw, max_state, remote_state, n,
                   planet_state, bbox_state, region_state, task, store_seq,
                   enriched, stale_read, processed, result, runs, last_seq,
                   change_file >>

(***************************************************************************)
(* State of a polygon filter (src/src/osmxml/filter.rs).                   *)
(***************************************************************************)
VARIABLES
    f_reader,        \* the reader: what was stored before the change
    f_poly,          \* PolyInfo of the polygon
    f_poly_buffered, \* PolyInfo of the buffered polygon
    f_out,           \* what the xmlwriter received, in order
    f_last,          \* the last entity handed to update_*, with its context
    f_new            \* per node of the change so far: its new coordinates

filterVars == << f_reader, f_poly, f_poly_buffered, f_out, f_last, f_new >>

(***************************************************************************)
(* State of a bbox pass (src/src/osmxml/bbox.rs).                          *)
(***************************************************************************)
VARIABLES
    b_reader,             \* the reader: what the store holds
    b_change,             \* the change file read: its entities in order
    nodes_modified,       \* HashMap<u64, BoundingBox>
    ways_modified,
    relations_modified,
    b_out,                \* what the xmlwriter received, in order
    b_cache,              \* the cache of the reader (OsmBin.cache)
    d_pos                 \* -1 while the pass holds the reader; after
                          \* get_cache, how much of b_out a filter has read

bboxVars == << b_reader, b_change, nodes_modified, ways_modified,
               relations_modified, b_out, b_cache, d_pos >>

(***************************************************************************)
(* An OsmCache read on its own (src/src/osmcache.rs).                      *)
(***************************************************************************)
VARIABLES
    c_cache,              \* the OsmCache
    c_last                \* the last read: kind, id, and its result

cacheVars == << c_cache, c_last >>

(***************************************************************************)
(* The free list over the sessions of a store (history).                   *)
(***************************************************************************)
VARIABLES
    w_freed,       \* <<num_nodes, offset>> freed in this writer session and
                   \* not reused since
    w_left         \* Some(w_freed) of the last writer session closed

wayVars == << w_freed, w_left >>

VARIABLES
    p_listing,     \* the directory handed to the loader: its path and what
                   \* read_dir yields, in the order it yields it
    p_poly         \* Some(the Poly tree loaded), None before the load

polyVars == << p_listing, p_poly >>

VARIABLES
    t_shared,      \* the Diff of one minute: its Arc<OsmCache>, the cache as
                   \* it was handed over, the change file of the planet
    t_task         \* region -> the task of the region: position and filter

taskVars == << t_shared, t_task >>

VARIABLES
    g_reader,      \* the store a reader is opened on
    g_last         \* the last call on it and what it returned

graphVars == << g_reader, g_last >>

VARIABLES
    conv_d,        \* the integer handed to int_to_bytes5
    conv_bytes,    \* Some(the five bytes it returned), None before
    conv_int,      \* Some(what bytes5_to_int made of them), None before
    conv_panic     \* int_to_bytes5 panicked

convVars == << conv_d, conv_bytes, conv_int, conv_panic >>

VARIABLES
    dl_net,        \* what the server answers to the requests, in order
    dl_i,          \* the counter i of the loop of download
    dl_tried,      \* the requests made
    dl_result      \* "loop", "response", or how download ended

downloadVars == << dl_net, dl_i, dl_tried, dl_result >>

VARIABLES
    rw,            \* the BufReaderWriterRand: mode, buffer and the file in it
    rf,            \* the same file without buffer
    rw_last,       \* the last call on the handle and what it returned
    rf_ret,        \* what the same call returned on the file
    rw_calls       \* the calls made

bufVars == << rw, rf, rw_last, rf_ret, rw_calls >>

toolVars == << convVars, downloadVars, bufVars >>

restVars == << polyVars, taskVars, graphVars, toolVars >>

vars == << storeVars, pipelineVars, filterVars, bboxVars, cacheVars, wayVars,
           restVars >>

\* The record the operations of OsmBin work on.
Store ==
    [ node_crd |-> node_crd, node_crd_len |-> node_crd_len,
      way_idx |-> way_idx, way_idx_len |-> way_idx_len,
      way_data |-> way_data, way_free |-> way_free, relation |-> relation,
      bin |-> osmbin, ret |-> None, panic |-> FALSE ]

Commit(s) ==
    /\ node_crd' = s.node_crd
    /\ node_crd_len' = s.node_crd_len
    /\ way_idx' = s.way_idx
    /\ way_idx_len' = s.way_idx_len
    /\ way_data' = s.way_data
    /\ way_free' = s.way_free
    /\ relation' = s.relation
    /\ osmbin' = s.bin
    /\ ret' = s.ret
    /\ panicked' = s.panic

\* node.crd, way.idx, way.data and the relation files.
Files(s) ==
    << s.node_crd, s.node_crd_len, s.way_idx, s.way_idx_len, s.way_data,
       s.relation >>

Untouched == [node |-> EmptyMap, way |-> EmptyMap, relation |-> EmptyMap]

NoOp == [op |-> "none", kind |-> "none", id |-> 0]

NoUpdate == [n |-> 0, change |-> <<>>, files |-> <<>>]

Min(a, b) == IF a <= b THEN a ELSE b

\* The polygon tree: region -> the region that holds it ("." is the root
\* directory, which has no polygon file).
Regions == {"a", "a/a1", "b"}

Parent == [r \in Regions |-> IF r = "a/a1" THEN "a" ELSE "."]

\* The output trees: the downloads, the enriched changes, the regions.
Trees == {"planet", "bbox"} \cup Regions

\* A valid local state, no output yet, a store holding no change.
InitPipeline ==
    /\ pc = "idle"
    /\ cur_state = 0
    /\ remote_raw = 0
    /\ max_state = None
    /\ remote_state = 0
    /\ n = 0
    /\ planet_state = Some(0)
    /\ bbox_state = None
    /\ region_state = [r \in Regions |-> None]
    /\ task = [r \in Regions |-> "idle"]
    /\ store_seq = [k \in 1..MaxSeq |-> "none"]
    /\ enriched = FALSE
    /\ stale_read = FALSE
    /\ processed = <<>>
    /\ result = "none"
    /\ runs = 0
    /\ last_seq = 0
    /\ change_file = [x \in Trees \X (1..MaxSeq) |-> "none"]

(***************************************************************************)
(* Geometry.  A polygon of the model is a rectangle of decimicro degrees,  *)
(* as a BoundingBox is; buffer_polygon grows it by 0.1 degree.             *)
(***************************************************************************)
BufferDistance == 1000000

BoundingBox(minlat, maxlat, minlon, maxlon) ==
    [ decimicro_minlat |-> minlat, decimicro_maxlat |-> maxlat,
      decimicro_minlon |-> minlon, decimicro_maxlon |-> maxlon ]

\* BoundingBox::expand_bbox
bb_expand_bbox(bb, bbox2) ==
    BoundingBox(Min(bb.decimicro_minlat, bbox2.decimicro_minlat),
                Max(bb.decimicro_maxlat, bbox2.decimicro_maxlat),
                Min(bb.decimicro_minlon, bbox2.decimicro_minlon),
                Max(bb.decimicro_maxlon, bbox2.decimicro_maxlon))

\* BoundingBox::expand_node
bb_expand_node(bb, node) ==
    BoundingBox(Min(bb.decimicro_minlat, node.decimicro_lat),
                Max(bb.decimicro_maxlat, node.decimicro_lat),
                Min(bb.decimicro_minlon, node.decimicro_lon),
                Max(bb.decimicro_maxlon, node.decimicro_lon))

buffer_polygon(mp) ==
    BoundingBox(mp.decimicro_minlat - BufferDistance,
                mp.decimicro_maxlat + BufferDistance,
                mp.decimicro_minlon - BufferDistance,
                mp.decimicro_maxlon + BufferDistance)

\* point.intersects(poly), the point being (lat, lon)
point_intersects(c, poly) ==
    /\ poly.decimicro_minlat <= c[1]
    /\ c[1] <= poly.decimicro_maxlat
    /\ poly.decimicro_minlon <= c[2]
    /\ c[2] <= poly.decimicro_maxlon

\* A variant of bbox_intersects that the properties must tell from it.
bbox_intersects_all(bbox, poly) == TRUE

\* bounding_box_to_polygon(bbox).intersects(poly)
bbox_intersects(bbox, poly) ==
    /\ bbox.decimicro_minlat <= poly.decimicro_maxlat
    /\ poly.decimicro_minlat <= bbox.decimicro_maxlat
    /\ bbox.decimicro_minlon <= poly.decimicro_maxlon
    /\ poly.decimicro_minlon <= bbox.decimicro_maxlon

\* The polygon of the region, and three positions: inside it, outside it
\* but inside its buffer, outside both.
RegionPoly == BoundingBox(0, 2000000, 0, 2000000)

Inside == <<1000000, 1000000>>

Near == <<2500000, 1000000>>

Far == <<5000000, 5000000>>

Positions == {Inside, Near, Far}

\* OsmBin::init: empty node.crd and way.idx, way.data holding "--", an
\* empty way.free, no relation file.
InitStore ==
    /\ node_crd = [i \in 0..MaxNodeId |-> Zero(NODE_CRD_SIZE)]
    /\ node_crd_len = 0
    /\ way_idx = [i \in 0..MaxWayId |-> Zero(WAY_PTR_SIZE)]
    /\ way_idx_len = 0
    /\ way_data = <<DASH, DASH>>
    /\ way_free = <<>>
    /\ relation = EmptyMap
    /\ osmbin = ClosedBin
    /\ ret = None
    /\ panicked = FALSE
    /\ lastop = NoOp
    /\ written = Untouched
    /\ once = NoUpdate
    /\ calls = 0

Call ==
    /\ calls < MaxCalls
    /\ calls' = calls + 1
    /\ UNCHANGED << pipelineVars, filterVars, bboxVars, cacheVars, wayVars,
                    restVars >>

\* OsmBin::new (Read) and OsmBin::new_writer (Write)
Open ==
    /\ Call
    /\ osmbin.mode = "Closed"
    /\ \E mode \in {"Read", "Write"} :
        \E s \in {new_any(Store, mode)} : Commit(s)
    /\ lastop' = [op |-> "open", kind |-> "none", id |-> 0]
    /\ written' = Untouched
    /\ once' = IF once.n = 1 THEN once ELSE NoUpdate

Close ==
    /\ Call
    /\ osmbin.mode # "Closed"
    /\ \E s \in {drop(Store)} : Commit(s)
    /\ lastop' = [op |-> "close", kind |-> "none", id |-> 0]
    /\ written' = Untouched
    /\ once' = IF once.n = 1 THEN once ELSE NoUpdate

ReadNode ==
    /\ Call
    /\ osmbin.mode # "Closed"
    /\ \E id \in NodeIds :
        /\ \E s \in {read_node(Store, id)} : Commit(s)
        /\ lastop' = [op |-> "read", kind |-> "node", id |-> id]
    /\ once' = NoUpdate
    /\ UNCHANGED written

ReadWay ==
    /\ Call
    /\ osmbin.mode # "Closed"
    /\ \E id \in WayIds :
        /\ \E s \in {read_way(Store, id)} : Commit(s)
        /\ lastop' = [op |-> "read", kind |-> "way", id |-> id]
    /\ once' = NoUpdate
    /\ UNCHANGED written

ReadRelation ==
    /\ Call
    /\ osmbin.mode # "Closed"
    /\ \E id \in RelIds :
        /\ \E s \in {read_relation(Store, id)} : Commit(s)
        /\ lastop' = [op |-> "read", kind |-> "relation", id |-> id]
    /\ once' = NoUpdate
    /\ UNCHANGED written

\* What the entry leaves on its entity: Some(e) written, None deleted.
Left(x) == IF x.action = "Delete" THEN None ELSE Some(x.e)

Mark(w, x) == [w EXCEPT ![x.kind] = Insert(@, x.e.id, Left(x))]

RECURSIVE MarkAll(_, _)
MarkAll(w, change) ==
    IF change = <<>> THEN w
    ELSE Mark(MarkAll(w, SubSeq(change, 1, Len(change) - 1)),
              change[Len(change)])

Fits(s) == Len(s.way_data) <= MaxWayDataLen

UpdateNode ==
    /\ Call
    /\ osmbin.mode = "Write"
    /\ \E node \in Nodes, action \in Actions :
        /\ \E s \in {update_node(Store, node, action)} : Commit(s)
        /\ lastop' = [op |-> "update", kind |-> "node", id |-> node.id]
        /\ written' = Mark(written, Entry("node", node, action))
    /\ once' = NoUpdate

UpdateWay ==
    /\ Call
    /\ osmbin.mode = "Write"
    /\ \E way \in Ways, action \in Actions :
        /\ \E s \in {update_way(Store, way, action)} : Fits(s) /\ Commit(s)
        /\ lastop' = [op |-> "update", kind |-> "way", id |-> way.id]
        /\ written' = Mark(written, Entry("way", way, action))
    /\ once' = NoUpdate

UpdateRelation ==
    /\ Call
    /\ osmbin.mode = "Write"
    /\ \E rel \in Relations, action \in Actions :
        /\ \E s \in {update_relation(Store, rel, action)} : Commit(s)
        /\ lastop' = [op |-> "update", kind |-> "relation", id |-> rel.id]
        /\ written' = Mark(written, Entry("relation", rel, action))
    /\ once' = NoUpdate

\* Change files applied as a whole.
Changes ==
    { << Entry("node", Node(1, <<179031745, -628363074>>), "Create"),
         Entry("way", Way(1, <<1>>), "Create") >>,
      << Entry("node", Node(2, <<0, 0>>), "Modify"),
         Entry("way", Way(1, <<1, 2>>), "Modify") >>,
      << Entry("way", Way(1, <<2>>), "Delete"),
         Entry("relation", Relation(1, <<Member("node", 1, "")>>, NameTag),
               "Create") >>,
      << Entry("node", Node(1, <<0, 0>>), "Delete"),
         Entry("relation", Relation(1, <<Member("node", 1, "")>>, NameTag),
               "Delete") >> }

\* OsmUpdate::update on the writer handle.
Update ==
    /\ Call
    /\ osmbin.mode = "Write"
    /\ once.n # 1
    /\ \E change \in Changes :
        /\ \E s \in {update(Store, change)} :
            /\ Fits(s)
            /\ Commit(s)
            /\ once' = [n |-> 1, change |-> change, files |-> Files(s)]
        /\ written' = MarkAll(written, change)
    /\ lastop' = [op |-> "update", kind |-> "change", id |-> 0]

\* The same change file applied a second time, on the same handle or on a
\* reopened one.
UpdateAgain ==
    /\ Call
    /\ osmbin.mode = "Write"
    /\ once.n = 1
    /\ \E s \in {update(Store, once.change)} : Fits(s) /\ Commit(s)
    /\ written' = MarkAll(written, once.change)
    /\ once' = [once EXCEPT !.n = 2]
    /\ lastop' = [op |-> "update", kind |-> "change", id |-> 0]

NextStore ==
    \/ Open
    \/ Close
    \/ ReadNode
    \/ ReadWay
    \/ ReadRelation
    \/ UpdateNode
    \/ UpdateWay
    \/ UpdateRelation
    \/ Update
    \/ UpdateAgain


(***************************************************************************)
(* Update::update (src/src/update.rs).  One run reads the local and the    *)
(* remote state and processes the minutes one after the other; inside a    *)
(* minute the steps follow each other as in the code.  A step that fails   *)
(* unwinds the run (every step is followed by unwrap), and the process may *)
(* be interrupted anywhere: both are the action Fail.                      *)
(***************************************************************************)
\* Variants of clamp and n_split_state that the properties must tell from
\* them: a maximum that is ignored, a state file of the following minute.
clamp_ignored(remote, max) == remote

n_split_state_next(k) == k + 1

\* if let Some(s) = max_state { remote_state = min(remote_state, s) }
clamp(remote, max) == IF max # None THEN Min(remote, max[1]) ELSE remote

\* for n in (cur_state + 1)..(remote_state + 1): there is a next minute
in_range(k, remote) == k < remote + 1

\* The sequence number that <n_split>.state.txt, the target of the symlink
\* written for minute k, carries.
n_split_state(k) == k

\* read_state_from_file: Err(StateNotFound) when the file is missing
read_state_from_file(file) ==
    IF file = None THEN [err |-> "StateNotFound"] ELSE [ok |-> file[1]]

EndRun(how) ==
    /\ pc' = "idle"
    /\ result' = how

PipelineFrame ==
    UNCHANGED << storeVars, filterVars, bboxVars, cacheVars, wayVars,
                 restVars >>

\* The run from its start to the first minute of the loop.
Start ==
    /\ pc = "idle"
    /\ runs < MaxRuns
    /\ runs' = runs + 1
    /\ processed' = <<>>
    /\ \E remote \in 0..MaxSeq, max \in {None} \cup {Some(k) : k \in 0..MaxSeq},
          url_ok \in BOOLEAN :
        LET local == read_state_from_file(planet_state)
            clamped == clamp(remote, max)
        IN  /\ remote_raw' = remote
            /\ max_state' = max
            /\ IF "err" \in DOMAIN local
               THEN /\ EndRun(local.err)
                    /\ UNCHANGED << cur_state, remote_state, n >>
               ELSE IF ~url_ok
               THEN /\ EndRun("Network")
                    /\ cur_state' = local.ok
                    /\ UNCHANGED << remote_state, n >>
               ELSE /\ cur_state' = local.ok
                    /\ remote_state' = clamped
                    /\ IF local.ok # clamped /\ in_range(local.ok + 1, clamped)
                       THEN /\ n' = local.ok + 1
                            /\ pc' = "download"
                            /\ result' = "running"
                       ELSE /\ EndRun("Ok")
                            /\ UNCHANGED n
    /\ UNCHANGED << planet_state, bbox_state, region_state, task, store_seq,
                    enriched, stale_read, last_seq >>
    /\ UNCHANGED change_file
    /\ PipelineFrame

\* Self::download of the change file and of its state file.  The change
\* file of a region is written beside its name and renamed to it
\* (generate_diff); the two others are written in place.
Download ==
    /\ pc = "download"
    /\ pc' = "bbox"
    /\ processed' = Append(processed, n)
    /\ enriched' = FALSE
    /\ task' = [r \in Regions |-> "idle"]
    /\ UNCHANGED << cur_state, remote_raw, max_state, remote_state, n,
                    planet_state, bbox_state, region_state, store_seq,
                    stale_read, result, runs, last_seq >>
    /\ change_file' = [change_file EXCEPT ![<<"planet", n>>] = "complete"]
    /\ PipelineFrame

\* OsmXmlBBox::new_osmbin(..).update(orig_diff): the pass reads the store
\* through a reader handle, whose cache the filters will read.
BBox ==
    /\ pc = "bbox"
    /\ pc' = "bbox_state_remove"
    /\ enriched' = TRUE
    /\ stale_read' = (stale_read \/ store_seq[n] # "none")
    /\ UNCHANGED << cur_state, remote_raw, max_state, remote_state, n,
                    planet_state, bbox_state, region_state, task, store_seq,
                    processed, result, runs, last_seq >>
    /\ change_file' = [change_file EXCEPT ![<<"bbox", n>>] = "complete"]
    /\ PipelineFrame

BBoxStateRemove ==
    /\ pc = "bbox_state_remove"
    /\ pc' = "bbox_state_symlink"
    /\ bbox_state' = None
    /\ UNCHANGED << cur_state, remote_raw, max_state, remote_state, n,
                    planet_state, region_state, task, store_seq, enriched,
                    stale_read, processed, result, runs, last_seq >>
    /\ UNCHANGED change_file
    /\ PipelineFrame

BBoxStateSymlink ==
    /\ pc = "bbox_state_symlink"
    /\ pc' = "filter"
    /\ bbox_state' = Some(n_split_state(n))
    /\ UNCHANGED << cur_state, remote_raw, max_state, remote_state, n,
                    planet_state, region_state, task, store_seq, enriched,
                    stale_read, processed, result, runs, last_seq >>
    /\ UNCHANGED change_file
    /\ PipelineFrame

TaskFrame ==
    UNCHANGED << pc, cur_state, remote_raw, max_state, remote_state, n,
                 planet_state, bbox_state, store_seq, enriched, processed,
                 result, runs, last_seq >>

\* generate_diff of a region up to the rename of its change file: it runs
\* once the region that holds it has finished, beside its siblings
\* (par_iter), and reads the cache the bbox pass filled.
Filter ==
    /\ pc = "filter"
    /\ \E r \in Regions :
        /\ task[r] = "idle"
        /\ IF Parent[r] = "." THEN TRUE ELSE task[Parent[r]] = "done"
        /\ task' = [task EXCEPT ![r] = "filtered"]
        /\ change_file' = [change_file EXCEPT ![<<r, n>>] = "complete"]
    /\ stale_read' = (stale_read \/ store_seq[n] # "none")
    /\ UNCHANGED region_state
    /\ TaskFrame
    /\ PipelineFrame

RegionStateRemove ==
    /\ pc = "filter"
    /\ \E r \in Regions :
        /\ task[r] = "filtered"
        /\ task' = [task EXCEPT ![r] = "removed"]
        /\ region_state' = [region_state EXCEPT ![r] = None]
    /\ UNCHANGED stale_read
    /\ TaskFrame
    /\ UNCHANGED change_file
    /\ PipelineFrame

RegionStateSymlink ==
    /\ pc = "filter"
    /\ \E r \in Regions :
        /\ task[r] = "removed"
        /\ task' = [task EXCEPT ![r] = "done"]
        /\ region_state' = [region_state EXCEPT ![r] = Some(n_split_state(n))]
    /\ UNCHANGED stale_read
    /\ TaskFrame
    /\ UNCHANGED change_file
    /\ PipelineFrame

\* generate_diff_recursive returns when every task has.
FilterEnd ==
    /\ pc = "filter"
    /\ \A r \in Regions : task[r] = "done"
    /\ pc' = "osmbin_update"
    /\ UNCHANGED << cur_state, remote_raw, max_state, remote_state, n,
                    planet_state, bbox_state, region_state, task, store_seq,
                    enriched, stale_read, processed, result, runs, last_seq >>
    /\ UNCHANGED change_file
    /\ PipelineFrame

\* OsmBin::new_writer(..).update(orig_diff)
OsmbinUpdate ==
    /\ pc = "osmbin_update"
    /\ pc' = "state_remove"
    /\ store_seq' = [store_seq EXCEPT ![n] = "full"]
    /\ UNCHANGED << cur_state, remote_raw, max_state, remote_state, n,
                    planet_state, bbox_state, region_state, task, enriched,
                    stale_read, processed, result, runs, last_seq >>
    /\ UNCHANGED change_file
    /\ PipelineFrame

StateRemove ==
    /\ pc = "state_remove"
    /\ pc' = "state_symlink"
    /\ planet_state' = None
    /\ UNCHANGED << cur_state, remote_raw, max_state, remote_state, n,
                    bbox_state, region_state, task, store_seq, enriched,
                    stale_read, processed, result, runs, last_seq >>
    /\ UNCHANGED change_file
    /\ PipelineFrame

\* The symlink ends the minute; the loop goes on or the run returns Ok.
StateSymlink ==
    /\ pc = "state_symlink"
    /\ planet_state' = Some(n_split_state(n))
    /\ last_seq' = n_split_state(n)
    /\ IF in_range(n + 1, remote_state)
       THEN /\ n' = n + 1
            /\ pc' = "download"
            /\ UNCHANGED result
       ELSE /\ EndRun("Ok")
            /\ UNCHANGED n
    /\ UNCHANGED << cur_state, remote_raw, max_state, remote_state,
                    bbox_state, region_state, task, store_seq, enriched,
                    stale_read, processed, runs >>
    /\ UNCHANGED change_file
    /\ PipelineFrame

\* A failed step or an interruption.  A store update that fails may have
\* applied a part of the change.
Fail ==
    /\ pc # "idle"
    /\ EndRun("Panic")
    /\ \/ UNCHANGED << store_seq, change_file >>
       \/ /\ pc = "osmbin_update"
          /\ store_seq[n] = "none"
          /\ store_seq' = [store_seq EXCEPT ![n] = "partial"]
          /\ UNCHANGED change_file
       \* File::create of download and of OsmXml::new is on the file itself
       \/ /\ pc \in {"download", "bbox"}
          /\ change_file' =
               [change_file EXCEPT
                  ![<<IF pc = "bbox" THEN "bbox" ELSE "planet", n>>] = "partial"]
          /\ UNCHANGED store_seq
    /\ UNCHANGED << cur_state, remote_raw, max_state, remote_state, n,
                    planet_state, bbox_state, region_state, task, enriched,
                    stale_read, processed, runs, last_seq >>
    /\ PipelineFrame

NextPipeline ==
    \/ Start
    \/ Download
    \/ BBox
    \/ BBoxStateRemove
    \/ BBoxStateSymlink
    \/ Filter
    \/ RegionStateRemove
    \/ RegionStateSymlink
    \/ FilterEnd
    \/ OsmbinUpdate
    \/ StateRemove
    \/ StateSymlink
    \/ Fail

(***************************************************************************)
(* OsmXmlFilter (src/src/osmxml/filter.rs).  The membership tests return   *)
(* their result b together with the PolyInfo pi they leave: they record    *)
(* the ids found inside the polygon.  The reader answers for every id, as  *)
(* a store does, or is an OsmCache, whose reads panic on an id it has no    *)
(* entry for.  A panic or a stack overflow ends the process: pi.abort says *)
(* how, and nothing is read or written after it.                           *)
(***************************************************************************)
PolyInfo(poly) ==
    [ poly |-> poly, nodes_seen_in_poly |-> {}, ways_seen_in_poly |-> {},
      relations_seen_in_poly |-> {}, abort |-> "none" ]

Found(b, pi) == [b |-> b, pi |-> pi]

Abort(pi, how) == Found(FALSE, [pi EXCEPT !.abort = how])

Aborted(pi) == pi.abort # "none"

\* The depth of relation nesting the stack holds: more than an acyclic chain
\* of the model's relations needs.
MaxDepth == MaxNestRelId + 1

\* if let Some(bbox) = &way.bbox { bbox.intersects(poly_buffered) } else
\* { false }
inside_bbox(bbox, poly) ==
    IF bbox # None THEN bbox_intersects(bbox[1], poly) ELSE FALSE

\* As node_in_poly, of a reader that is never asked.
node_not_read(pi, reader, id) == Found(FALSE, pi)

node_in_poly(pi, reader, id) ==
    IF id \in pi.nodes_seen_in_poly THEN Found(TRUE, pi)
    ELSE IF cache_panics_node(reader, id) THEN Abort(pi, "not found")
    ELSE LET node == cache_read_node(reader, id)
         IN  IF node # None
             THEN IF point_intersects(<< node[1].decimicro_lat,
                                         node[1].decimicro_lon >>, pi.poly)
                  THEN Found(TRUE, [pi EXCEPT !.nodes_seen_in_poly =
                                                  @ \cup {id}])
                  ELSE Found(FALSE, pi)
             ELSE Found(FALSE, pi)

RECURSIVE nodes_in_poly(_, _, _)
nodes_in_poly(pi, reader, nodes) ==
    IF nodes = <<>> THEN Found(FALSE, pi)
    ELSE LET r == node_in_poly(pi, reader, Head(nodes))
         IN  IF r.b \/ Aborted(r.pi) THEN r
             ELSE nodes_in_poly(r.pi, reader, Tail(nodes))

\* As way_in_poly, of a reader that is never asked.
way_not_read(pi, reader, id) == Found(FALSE, pi)

way_in_poly(pi, reader, id) ==
    IF id \in pi.ways_seen_in_poly THEN Found(TRUE, pi)
    ELSE IF cache_panics_way(reader, id) THEN Abort(pi, "not found")
    ELSE LET way == cache_read_way(reader, id)
         IN  IF way # None
             THEN LET r == nodes_in_poly(pi, reader, way[1].nodes)
                  IN  IF r.b
                      THEN Found(TRUE, [r.pi EXCEPT !.ways_seen_in_poly =
                                                        @ \cup {id}])
                      ELSE r
             ELSE Found(FALSE, pi)

RECURSIVE members_in_poly(_, _, _, _)
RECURSIVE relation_in_poly(_, _, _, _)
members_in_poly(pi, reader, members, prev_relations) ==
    IF members = <<>> THEN Found(FALSE, pi)
    ELSE LET m == Head(members)
             r == IF m.type_ = "node" THEN node_in_poly(pi, reader, m.ref_)
                  ELSE IF m.type_ = "way" THEN way_in_poly(pi, reader, m.ref_)
                  ELSE IF Len(prev_relations) >= MaxDepth
                  THEN Abort(pi, "stack overflow")
                  ELSE relation_in_poly(pi, reader, m.ref_,
                                        Append(prev_relations, m.ref_))
         IN  IF r.b \/ Aborted(r.pi) THEN r
             ELSE members_in_poly(r.pi, reader, Tail(members), prev_relations)

relation_in_poly(pi, reader, id, prev_relations) ==
    IF id \in pi.relations_seen_in_poly THEN Found(TRUE, pi)
    ELSE IF cache_panics_relation(reader, id) THEN Abort(pi, "not found")
    ELSE LET rel == cache_read_relation(reader, id)
         IN  IF rel # None
             THEN LET r == members_in_poly(pi, reader, rel[1].members,
                                           prev_relations)
                  IN  IF r.b
                      THEN Found(TRUE, [r.pi EXCEPT !.relations_seen_in_poly =
                                                        @ \cup {id}])
                      ELSE r
             ELSE Found(FALSE, pi)

\* As Emit, the entity written before what the file holds.
EmitFront(out, action, kind, e) ==
    <<[action |-> action, kind |-> kind, e |-> e]>> \o out

\* write_action_start(action) and write_<kind>(e) of the xmlwriter
Emit(out, action, kind, e) ==
    Append(out, [action |-> action, kind |-> kind, e |-> e])

\* The filter: the two PolyInfo and the output.
FilterState == [poly |-> f_poly, poly_buffered |-> f_poly_buffered, out |-> f_out]

filter_update_node(fs, reader, node, action) ==
    LET point == << node.decimicro_lat, node.decimicro_lon >>
        r == IF point_intersects(point, fs.poly_buffered.poly)
             THEN Found(TRUE, fs.poly_buffered)
             ELSE node_in_poly(fs.poly_buffered, reader, node.id)
        in_poly_buffered == r.b
        seen == [r.pi EXCEPT !.nodes_seen_in_poly = @ \cup {node.id}]
    IN  IF in_poly_buffered
        THEN IF point_intersects(point, fs.poly.poly)
             THEN [ poly |-> [fs.poly EXCEPT !.nodes_seen_in_poly =
                                                 @ \cup {node.id}],
                    poly_buffered |-> seen,
                    out |-> Emit(fs.out, action, "node", node) ]
             ELSE [ poly |-> fs.poly,
                    poly_buffered |-> seen,
                    out |-> Emit(fs.out, "Delete", "node", node) ]
        ELSE [fs EXCEPT !.poly_buffered = r.pi]

filter_update_way(fs, reader, way, action) ==
    IF inside_bbox(way.bbox, fs.poly_buffered.poly)
    THEN LET r1 == nodes_in_poly(fs.poly, reader, way.nodes)
             r2 == nodes_in_poly(fs.poly_buffered, reader, way.nodes)
             r3 == IF r2.b \/ Aborted(r2.pi) THEN r2
                   ELSE way_in_poly(r2.pi, reader, way.id)
         IN  IF Aborted(r1.pi)
             THEN [ poly |-> r1.pi, poly_buffered |-> fs.poly_buffered,
                    out |-> fs.out ]
             ELSE IF r1.b
             THEN [ poly |-> [r1.pi EXCEPT !.ways_seen_in_poly =
                                               @ \cup {way.id}],
                    poly_buffered |->
                        [fs.poly_buffered EXCEPT !.ways_seen_in_poly =
                                                     @ \cup {way.id}],
                    out |-> Emit(fs.out, action, "way", way) ]
             ELSE IF r3.b
             THEN [ poly |-> r1.pi,
                    poly_buffered |-> [r3.pi EXCEPT !.ways_seen_in_poly =
                                                        @ \cup {way.id}],
                    out |-> Emit(fs.out, "Delete", "way", way) ]
             ELSE [ poly |-> r1.pi, poly_buffered |-> r3.pi, out |-> fs.out ]
    ELSE fs

filter_update_relation(fs, reader, rel, action) ==
    IF inside_bbox(rel.bbox, fs.poly_buffered.poly)
    THEN LET r1 == members_in_poly(fs.poly, reader, rel.members, <<>>)
             r2 == members_in_poly(fs.poly_buffered, reader, rel.members, <<>>)
             r3 == IF r2.b \/ Aborted(r2.pi) THEN r2
                   ELSE relation_in_poly(r2.pi, reader, rel.id, <<>>)
         IN  IF Aborted(r1.pi)
             THEN [ poly |-> r1.pi, poly_buffered |-> fs.poly_buffered,
                    out |-> fs.out ]
             ELSE IF r1.b
             THEN [ poly |-> [r1.pi EXCEPT !.relations_seen_in_poly =
                                               @ \cup {rel.id}],
                    poly_buffered |->
                        [fs.poly_buffered EXCEPT !.relations_seen_in_poly =
                                                     @ \cup {rel.id}],
                    out |-> Emit(fs.out, action, "relation", rel) ]
             ELSE IF r3.b
             THEN [ poly |-> r1.pi,
                    poly_buffered |-> [r3.pi EXCEPT !.relations_seen_in_poly =
                                                        @ \cup {rel.id}],
                    out |-> Emit(fs.out, "Delete", "relation", rel) ]
             ELSE [ poly |-> r1.pi, poly_buffered |-> r3.pi, out |-> fs.out ]
    ELSE fs

\* What a filter may find stored before the change.
StoredNodes == [NodeIds -> {None} \cup {Some(c) : c \in Positions}]

StoredWays == [WayIds -> {None, Some(<<1>>), Some(<<1, 2>>)}]

StoredRelations ==
    { [r \in RelIds |->
          IF f[r] = None THEN None ELSE Some(Relation(r, f[r][1], NameTag))] :
        f \in [RelIds -> {None} \cup {Some(m) : m \in MemberLists}] }

\* The bounding boxes a way or a relation of the input may carry.
Hull(c1, c2) ==
    BoundingBox(Min(c1[1], c2[1]), Max(c1[1], c2[1]),
                Min(c1[2], c2[2]), Max(c1[2], c2[2]))

InputBBoxes ==
    {None, Some(Hull(Inside, Inside)), Some(Hull(Far, Far)),
     Some(Hull(Inside, Far))}

InputNodes == { Node(id, c) : id \in NodeIds, c \in Positions }

InputWays ==
    { [id |-> id, nodes |-> nodes, bbox |-> bbox] :
        id \in WayIds, nodes \in {<<1>>, <<2>>, <<1, 2>>},
        bbox \in InputBBoxes }

InputRelations ==
    { [id |-> id, members |-> m, tags |-> NameTag, bbox |-> bbox] :
        id \in RelIds, m \in MemberLists, bbox \in InputBBoxes }

NoEntity ==
    [ n |-> 0, kind |-> "none", e |-> <<>>, action |-> "none",
      seen |-> FALSE, emitted |-> None ]

\* No filter at work.
InitFilterIdle ==
    /\ f_reader = EmptyCache
    /\ f_poly = PolyInfo(RegionPoly)
    /\ f_poly_buffered = PolyInfo(buffer_polygon(RegionPoly))
    /\ f_out = <<>>
    /\ f_last = NoEntity
    /\ f_new = EmptyMap

\* OsmXmlFilter::new_reader
InitFilter ==
    /\ f_reader \in [ nodes : StoredNodes, ways : StoredWays,
                      relations : StoredRelations ]
    /\ f_poly = PolyInfo(RegionPoly)
    /\ f_poly_buffered = PolyInfo(buffer_polygon(RegionPoly))
    /\ f_out = <<>>
    /\ f_last = NoEntity
    /\ f_new = EmptyMap

FilterCommit(fs) ==
    /\ f_poly' = fs.poly
    /\ f_poly_buffered' = fs.poly_buffered
    /\ f_out' = fs.out

\* What the step wrote: None, or Some(action it was written under).
Emitted(fs) ==
    IF Len(fs.out) > Len(f_out) THEN Some(fs.out[Len(fs.out)].action) ELSE None

FilterFrame ==
    /\ f_last.n < MaxEntries
    /\ UNCHANGED << f_reader, storeVars, pipelineVars, bboxVars, cacheVars,
                    wayVars, restVars >>

FilterUpdateNode ==
    /\ FilterFrame
    /\ \E node \in InputNodes, action \in Actions :
        \E fs \in {filter_update_node(FilterState, f_reader, node, action)} :
            /\ FilterCommit(fs)
            /\ f_last' = [ n |-> f_last.n + 1, kind |-> "node", e |-> node,
                           action |-> action,
                           seen |-> node.id \in
                                      f_poly_buffered.nodes_seen_in_poly,
                           emitted |-> Emitted(fs) ]
            /\ f_new' = Insert(f_new, node.id,
                               << node.decimicro_lat, node.decimicro_lon >>)

FilterUpdateWay ==
    /\ FilterFrame
    /\ \E way \in InputWays, action \in Actions :
        \E fs \in {filter_update_way(FilterState, f_reader, way, action)} :
            /\ FilterCommit(fs)
            /\ f_last' = [ n |-> f_last.n + 1, kind |-> "way", e |-> way,
                           action |-> action,
                           seen |-> way.id \in
                                      f_poly_buffered.ways_seen_in_poly,
                           emitted |-> Emitted(fs) ]
    /\ UNCHANGED f_new

FilterUpdateRelation ==
    /\ FilterFrame
    /\ \E rel \in InputRelations, action \in Actions :
        \E fs \in {filter_update_relation(FilterState, f_reader, rel, action)} :
            /\ FilterCommit(fs)
            /\ f_last' = [ n |-> f_last.n + 1, kind |-> "relation", e |-> rel,
                           action |-> action,
                           seen |-> rel.id \in
                                      f_poly_buffered.relations_seen_in_poly,
                           emitted |-> Emitted(fs) ]
    /\ UNCHANGED f_new

NextFilter ==
    \/ FilterUpdateNode
    \/ FilterUpdateWay
    \/ FilterUpdateRelation

(***************************************************************************)
(* OsmXmlBBox (src/src/osmxml/bbox.rs).  The expand_* functions return the *)
(* Option<BoundingBox> they leave in their argument bbox; bs holds the     *)
(* three maps of the pass.                                                 *)
(***************************************************************************)
expand_bbox(bbox, bbox2) ==
    IF bbox # None THEN Some(bb_expand_bbox(bbox[1], bbox2)) ELSE Some(bbox2)

expand_bbox_node_only(bbox, node) ==
    IF bbox # None THEN Some(bb_expand_node(bbox[1], node))
    ELSE Some(BoundingBox(node.decimicro_lat, node.decimicro_lat,
                          node.decimicro_lon, node.decimicro_lon))

expand_bbox_node_id(bs, reader, bbox, id) ==
    LET bbox1 == IF id \in DOMAIN bs.nodes_modified
                 THEN expand_bbox(bbox, bs.nodes_modified[id])
                 ELSE bbox
        node == cache_read_node(reader, id)
    IN  IF node # None THEN expand_bbox_node_only(bbox1, node[1]) ELSE bbox1

expand_bbox_node(bs, reader, bbox, node) ==
    expand_bbox_node_only(expand_bbox_node_id(bs, reader, bbox, node.id), node)

RECURSIVE expand_bbox_nodes(_, _, _, _)
expand_bbox_nodes(bs, reader, bbox, nodes) ==
    IF nodes = <<>> THEN bbox
    ELSE expand_bbox_nodes(bs, reader,
                           expand_bbox_node_id(bs, reader, bbox, Head(nodes)),
                           Tail(nodes))

expand_bbox_way_only(bs, reader, bbox, way) ==
    expand_bbox_nodes(bs, reader, bbox, way.nodes)

expand_bbox_way_id(bs, reader, bbox, id) ==
    LET bbox1 == IF id \in DOMAIN bs.ways_modified
                 THEN expand_bbox(bbox, bs.ways_modified[id])
                 ELSE bbox
        way == cache_read_way(reader, id)
    IN  IF way # None THEN expand_bbox_way_only(bs, reader, bbox1, way[1])
        ELSE bbox1

expand_bbox_way(bs, reader, bbox, way) ==
    expand_bbox_way_only(bs, reader,
                         expand_bbox_way_id(bs, reader, bbox, way.id), way)

RECURSIVE expand_bbox_members(_, _, _, _, _)
RECURSIVE expand_bbox_relation_id(_, _, _, _, _)
\* The loop of expand_bbox_relation_only over the members.
expand_bbox_members(bs, reader, bbox, members, prev_relations) ==
    IF members = <<>> THEN bbox
    ELSE LET m == Head(members)
             bbox1 ==
                 IF m.type_ = "node"
                 THEN expand_bbox_node_id(bs, reader, bbox, m.ref_)
                 ELSE IF m.type_ = "way"
                 THEN expand_bbox_way_id(bs, reader, bbox, m.ref_)
                 ELSE expand_bbox_relation_id(bs, reader, bbox, m.ref_,
                                              prev_relations)
         IN  expand_bbox_members(bs, reader, bbox1, Tail(members),
                                 prev_relations)

expand_bbox_relation_id(bs, reader, bbox, id, prev_relations) ==
    IF id \in Range(prev_relations) THEN bbox
    ELSE LET bbox1 == IF id \in DOMAIN bs.relations_modified
                      THEN expand_bbox(bbox, bs.relations_modified[id])
                      ELSE bbox
             rel == cache_read_relation(reader, id)
         IN  IF rel # None
             THEN expand_bbox_members(bs, reader, bbox1, rel[1].members,
                                      Append(prev_relations, id))
             ELSE bbox1

expand_bbox_relation_only(bs, reader, bbox, rel, prev_relations) ==
    expand_bbox_members(bs, reader, bbox, rel.members, prev_relations)

expand_bbox_relation(bs, reader, bbox, rel) ==
    expand_bbox_relation_only(
        bs, reader, expand_bbox_relation_id(bs, reader, bbox, rel.id, <<>>),
        rel, <<rel.id>>)

\* A walk that never finds an id among the relations above it.
never_detected(prev_relations, id) == FALSE

\* prev_relations.contains(&id), the guard of expand_bbox_relation_id
recursion_detected(prev_relations, id) == id \in Range(prev_relations)

\* The chain of a walk that went deeper than the model follows it.
TooDeep == <<0>>

(***************************************************************************)
(* The calls of self.reader.read_relation that expand_bbox_relation makes, *)
(* in order, each as the chain of relations it was reached through         *)
(* (prev_relations with the id pushed).                                    *)
(***************************************************************************)
RECURSIVE calls_members(_, _, _)
RECURSIVE calls_relation_id(_, _, _)
calls_members(reader, members, prev_relations) ==
    IF members = <<>> THEN <<>>
    ELSE (IF Head(members).type_ = "relation"
          THEN calls_relation_id(reader, Head(members).ref_, prev_relations)
          ELSE <<>>)
             \o calls_members(reader, Tail(members), prev_relations)

calls_relation_id(reader, id, prev_relations) ==
    IF recursion_detected(prev_relations, id) THEN <<>>
    ELSE IF Len(prev_relations) > MaxNestRelId THEN <<TooDeep>>
    ELSE <<Append(prev_relations, id)>>
            \o (IF cache_read_relation(reader, id) # None
                 THEN calls_members(reader,
                                    cache_read_relation(reader, id)[1].members,
                                    Append(prev_relations, id))
                 ELSE <<>>)

calls_relation(reader, rel) ==
    calls_relation_id(reader, rel.id, <<>>)
        \o calls_members(reader, rel.members, <<rel.id>>)

(***************************************************************************)
(* The reads the expand_* functions make through self.reader, as pairs     *)
(* <<kind, id>>, and the entries OsmBin::read_* leave in the cache for     *)
(* them.                                                                   *)
(***************************************************************************)
reads_nodes(nodes) == { <<"node", nodes[i]>> : i \in DOMAIN nodes }

\* As reads_way_id, without the nodes of the stored way.
reads_way_id_alone(reader, id) == { <<"way", id>> }

reads_way_id(reader, id) ==
    { <<"way", id>> }
        \cup (IF cache_read_way(reader, id) # None
              THEN reads_nodes(cache_read_way(reader, id)[1].nodes)
              ELSE {})

reads_way(reader, way) == reads_way_id(reader, way.id) \cup reads_nodes(way.nodes)

RECURSIVE reads_members(_, _, _)
RECURSIVE reads_relation_id(_, _, _)
reads_members(reader, members, prev_relations) ==
    IF members = <<>> THEN {}
    ELSE LET m == Head(members)
         IN  (IF m.type_ = "node" THEN { <<"node", m.ref_>> }
              ELSE IF m.type_ = "way" THEN reads_way_id(reader, m.ref_)
              ELSE reads_relation_id(reader, m.ref_, prev_relations))
                 \cup reads_members(reader, Tail(members), prev_relations)

reads_relation_id(reader, id, prev_relations) ==
    IF id \in Range(prev_relations) THEN {}
    ELSE { <<"relation", id>> }
            \cup (IF cache_read_relation(reader, id) # None
                  THEN reads_members(reader,
                                     cache_read_relation(reader, id)[1].members,
                                     Append(prev_relations, id))
                  ELSE {})

reads_relation(reader, rel) ==
    reads_relation_id(reader, rel.id, <<>>)
        \cup reads_members(reader, rel.members, <<rel.id>>)

Ids(reads, kind) == { x[2] : x \in { y \in reads : y[1] = kind } }

\* self.cache.<kind>.insert(id, ...) of every read
cache_fill(cache, reader, reads) ==
    [ nodes |-> [id \in DOMAIN cache.nodes \cup Ids(reads, "node") |->
                    reader.nodes[id]],
      ways |-> [id \in DOMAIN cache.ways \cup Ids(reads, "way") |->
                   reader.ways[id]],
      relations |-> [id \in DOMAIN cache.relations \cup Ids(reads, "relation")
                        |-> reader.relations[id]] ]

\* update_node: write_action_start(action), write_node(node)
bbox_update_node(bs, reader, node, action) ==
    LET bbox == expand_bbox_node(bs, reader, None, node)
    IN  [bs EXCEPT !.nodes_modified = Insert(@, node.id, bbox[1]),
                   !.out = Emit(@, action, "node", node),
                   !.cache = cache_fill(@, reader, { <<"node", node.id>> })]

bbox_update_way(bs, reader, way, action) ==
    LET bbox == expand_bbox_way(bs, reader, None, way)
        with_bbox == [id |-> way.id, nodes |-> way.nodes, bbox |-> bbox]
    IN  [bs EXCEPT !.ways_modified =
                       IF bbox # None THEN Insert(@, way.id, bbox[1]) ELSE @,
                   !.out = Emit(@, action, "way", with_bbox),
                   !.cache = cache_fill(@, reader, reads_way(reader, way))]

bbox_update_relation(bs, reader, rel, action) ==
    LET bbox == expand_bbox_relation(bs, reader, None, rel)
        with_bbox == [id |-> rel.id, members |-> rel.members,
                      tags |-> rel.tags, bbox |-> bbox]
    IN  [bs EXCEPT !.relations_modified =
                       IF bbox # None THEN Insert(@, rel.id, bbox[1]) ELSE @,
                   !.out = Emit(@, action, "relation", with_bbox),
                   !.cache = cache_fill(@, reader, reads_relation(reader, rel))]

BBoxPass ==
    [ nodes_modified |-> nodes_modified, ways_modified |-> ways_modified,
      relations_modified |-> relations_modified, out |-> b_out,
      cache |-> b_cache ]

\* A pass that has read nothing yet.
NewPass ==
    [ nodes_modified |-> EmptyMap, ways_modified |-> EmptyMap,
      relations_modified |-> EmptyMap, out |-> <<>>, cache |-> EmptyCache ]

\* OsmUpdateTo::update of the pass: update_node, update_way or
\* update_relation on the entities of the change from the i-th on.
RECURSIVE bbox_update(_, _, _, _)
bbox_update(bs, reader, change, i) ==
    IF i > Len(change) THEN bs
    ELSE LET x == change[i]
             bs1 == IF x.kind = "node"
                    THEN bbox_update_node(bs, reader, x.e, x.action)
                    ELSE IF x.kind = "way"
                    THEN bbox_update_way(bs, reader, x.e, x.action)
                    ELSE bbox_update_relation(bs, reader, x.e, x.action)
         IN  bbox_update(bs1, reader, change, i + 1)

\* What a reader finds in a store after OsmBin::update_node, update_way
\* or update_relation of an entity: nothing after a Delete, else the
\* entity.
stored_after(reader, x) ==
    IF x.kind = "node"
    THEN [reader EXCEPT !.nodes[x.e.id] =
              IF x.action = "Delete" THEN None
              ELSE Some(<<x.e.decimicro_lat, x.e.decimicro_lon>>)]
    ELSE IF x.kind = "way"
    THEN [reader EXCEPT !.ways[x.e.id] =
              IF x.action = "Delete" THEN None ELSE Some(x.e.nodes)]
    ELSE [reader EXCEPT !.relations[x.e.id] =
              IF x.action = "Delete" THEN None ELSE Some(x.e)]

\* OsmBin::update of a change file, stopped after k of its entities.
RECURSIVE stored_after_first(_, _, _)
stored_after_first(reader, change, k) ==
    IF k = 0 THEN reader
    ELSE stored_after(stored_after_first(reader, change, k - 1), change[k])

\* The entities a change file of the model is made of.
ChangeEntries ==
    { Entry("node", node, action) :
        node \in InputNodes, action \in {"Modify", "Delete"} }
    \cup { Entry("way", Way(id, nodes), "Modify") :
             id \in WayIds, nodes \in {<<1>>, <<2>>, <<1, 2>>} }
    \cup { Entry("relation", Relation(id, m, NameTag), "Modify") :
             id \in RelIds, m \in MemberLists }

ChangeFiles == UNION { [1..k -> ChangeEntries] : k \in 1..MaxEntries }

\* No bbox pass at work.
InitBBoxIdle ==
    /\ b_reader = EmptyCache
    /\ b_change = <<>>
    /\ nodes_modified = EmptyMap
    /\ ways_modified = EmptyMap
    /\ relations_modified = EmptyMap
    /\ b_out = <<>>
    /\ b_cache = EmptyCache
    /\ d_pos = -1

\* OsmXmlBBox::new_osmbin, and the change file it is about to read
InitBBox ==
    /\ b_reader \in [ nodes : StoredNodes, ways : StoredWays,
                      relations : StoredRelations ]
    /\ b_change \in ChangeFiles
    /\ nodes_modified = EmptyMap
    /\ ways_modified = EmptyMap
    /\ relations_modified = EmptyMap
    /\ b_out = <<>>
    /\ b_cache = EmptyCache
    /\ d_pos = -1

BBoxCommit(bs) ==
    /\ nodes_modified' = bs.nodes_modified
    /\ ways_modified' = bs.ways_modified
    /\ relations_modified' = bs.relations_modified
    /\ b_out' = bs.out
    /\ b_cache' = bs.cache
    /\ UNCHANGED << b_reader, b_change, d_pos, storeVars, pipelineVars,
                    filterVars, cacheVars, wayVars, restVars >>

\* The entity update_to reads next.
NextEntry == b_change[Len(b_out) + 1]

BBoxUpdateNode ==
    /\ Len(b_out) < Len(b_change)
    /\ NextEntry.kind = "node"
    /\ \E bs \in {bbox_update_node(BBoxPass, b_reader, NextEntry.e,
                                   NextEntry.action)} : BBoxCommit(bs)

BBoxUpdateWay ==
    /\ Len(b_out) < Len(b_change)
    /\ NextEntry.kind = "way"
    /\ \E bs \in {bbox_update_way(BBoxPass, b_reader, NextEntry.e,
                                  NextEntry.action)} : BBoxCommit(bs)

BBoxUpdateRelation ==
    /\ Len(b_out) < Len(b_change)
    /\ NextEntry.kind = "relation"
    /\ \E bs \in {bbox_update_relation(BBoxPass, b_reader, NextEntry.e,
                                       NextEntry.action)} : BBoxCommit(bs)

NextBBox ==
    \/ BBoxUpdateNode
    \/ BBoxUpdateWay
    \/ BBoxUpdateRelation

(***************************************************************************)
(* Diff generation (src/src/update.rs, src/src/diffs.rs): the bbox pass    *)
(* over a change file, get_cache, then a filter over the output of the     *)
(* pass with that cache.  The filter of a sub-region reads the output of   *)
(* its parent's filter: some of the entities, in the same order.           *)
(***************************************************************************)
NestRelIds == 1..MaxNestRelId

NestMemberLists ==
    MemberLists
        \cup { <<Member("relation", r, "")>> : r \in NestRelIds }
        \cup { <<Member("relation", r, ""), Member("way", 1, "")>> :
                 r \in NestRelIds }

NestStoredNodes == [NodeIds -> {None, Some(Inside)}]

NestStoredRelations ==
    { [r \in NestRelIds |->
          IF f[r] = None THEN None ELSE Some(Relation(r, f[r][1], NameTag))] :
        f \in [NestRelIds -> {None} \cup {Some(m) : m \in NestMemberLists}] }

NestChangeEntries ==
    { Entry("node", Node(id, c), "Modify") :
        id \in NodeIds, c \in {Inside, Far} }
    \cup { Entry("way", Way(id, nodes), "Modify") :
             id \in WayIds, nodes \in {<<1>>, <<1, 2>>} }
    \cup { Entry("relation", Relation(id, m, NameTag), "Modify") :
             id \in NestRelIds, m \in NestMemberLists }

NestChangeFiles == UNION { [1..k -> NestChangeEntries] : k \in 1..MaxEntries }

\* The polygons of a region and of a region inside it.
SubRegionPoly == BoundingBox(0, 500000, 0, 500000)

InitDiff ==
    /\ b_reader \in [ nodes : NestStoredNodes, ways : StoredWays,
                      relations : NestStoredRelations ]
    /\ b_change \in NestChangeFiles
    /\ nodes_modified = EmptyMap
    /\ ways_modified = EmptyMap
    /\ relations_modified = EmptyMap
    /\ b_out = <<>>
    /\ b_cache = EmptyCache
    /\ d_pos = -1

DiffFrame ==
    UNCHANGED << b_reader, b_change, nodes_modified, ways_modified,
                 relations_modified, b_out, f_last, f_new, storeVars,
                 pipelineVars, cacheVars, wayVars, restVars >>

\* osmxml.get_reader().get_cache() and OsmXmlFilter::new_reader on it
GetCache ==
    /\ d_pos = -1
    /\ Len(b_out) = Len(b_change)
    /\ d_pos' = 0
    /\ f_reader' = b_cache
    /\ b_cache' = EmptyCache
    /\ \E poly \in {RegionPoly, SubRegionPoly} :
        /\ f_poly' = PolyInfo(poly)
        /\ f_poly_buffered' = PolyInfo(buffer_polygon(poly))
    /\ f_out' = <<>>
    /\ DiffFrame

FilterAborted == Aborted(f_poly) \/ Aborted(f_poly_buffered)

DiffStep ==
    /\ d_pos >= 0
    /\ d_pos < Len(b_out)
    /\ ~FilterAborted
    /\ d_pos' = d_pos + 1
    /\ UNCHANGED << f_reader, b_cache >>
    /\ DiffFrame

DiffEntry == b_out[d_pos + 1]

DiffFilterNode ==
    /\ DiffStep
    /\ DiffEntry.kind = "node"
    /\ \E fs \in {filter_update_node(FilterState, f_reader, DiffEntry.e,
                                      DiffEntry.action)} : FilterCommit(fs)

DiffFilterWay ==
    /\ DiffStep
    /\ DiffEntry.kind = "way"
    /\ \E fs \in {filter_update_way(FilterState, f_reader, DiffEntry.e,
                                     DiffEntry.action)} : FilterCommit(fs)

DiffFilterRelation ==
    /\ DiffStep
    /\ DiffEntry.kind = "relation"
    /\ \E fs \in {filter_update_relation(FilterState, f_reader, DiffEntry.e,
                                          DiffEntry.action)} : FilterCommit(fs)

\* An entity that the filter of the parent region did not write.
DiffSkip ==
    /\ DiffStep
    /\ UNCHANGED << f_poly, f_poly_buffered, f_out >>

NextDiff ==
    \/ BBoxUpdateNode
    \/ BBoxUpdateWay
    \/ BBoxUpdateRelation
    \/ GetCache
    \/ DiffFilterNode
    \/ DiffFilterWay
    \/ DiffFilterRelation
    \/ DiffSkip

(***************************************************************************)
(* The ways of a store over its sessions: OsmBin::new, new_writer,         *)
(* update_way and drop on a store of more ways.                            *)
(***************************************************************************)
FreeWayIds == 1..MaxFreeWayId

FreeWays == { Way(id, nodes) : id \in FreeWayIds, nodes \in {<<1>>, <<1, 2>>} }

InitWaysIdle ==
    /\ w_freed = {}
    /\ w_left = None

\* OsmBin::init
InitWays ==
    /\ node_crd = [i \in 0..MaxNodeId |-> Zero(NODE_CRD_SIZE)]
    /\ node_crd_len = 0
    /\ way_idx = [i \in 0..MaxFreeWayId |-> Zero(WAY_PTR_SIZE)]
    /\ way_idx_len = 0
    /\ way_data = <<DASH, DASH>>
    /\ way_free = <<>>
    /\ relation = EmptyMap
    /\ osmbin = ClosedBin
    /\ ret = None
    /\ panicked = FALSE
    /\ lastop = NoOp
    /\ written = Untouched
    /\ once = NoUpdate
    /\ calls = 0

\* The entries of a free list, as pairs <<num_nodes, offset>>.
FreeEntries(map) ==
    UNION { { <<k, map[k][i]>> : i \in DOMAIN map[k] } : k \in DOMAIN map }

WaysCall ==
    /\ calls < MaxWayCalls
    /\ calls' = calls + 1
    /\ ~panicked
    /\ UNCHANGED << once, pipelineVars, filterVars, bboxVars, cacheVars,
                    restVars >>

WaysOpen ==
    /\ WaysCall
    /\ osmbin.mode = "Closed"
    /\ \E mode \in {"Read", "Write"} :
        \E s \in {new_any(Store, mode)} : Commit(s)
    /\ lastop' = [op |-> "open", kind |-> "none", id |-> 0]
    /\ written' = Untouched
    /\ w_freed' = {}
    /\ UNCHANGED w_left

WaysClose ==
    /\ WaysCall
    /\ osmbin.mode # "Closed"
    /\ \E s \in {drop(Store)} : Commit(s)
    /\ lastop' = [op |-> "close", kind |-> "none", id |-> 0]
    /\ written' = Untouched
    /\ w_freed' = {}
    /\ w_left' = IF osmbin.mode = "Write" THEN Some(w_freed) ELSE w_left

WaysUpdateWay ==
    /\ WaysCall
    /\ osmbin.mode = "Write"
    /\ \E way \in FreeWays, action \in {"Create", "Delete"} :
        /\ \E s \in {update_way(Store, way, action)} :
            /\ Fits(s)
            /\ Commit(s)
            /\ w_freed' =
                 (w_freed \ (FreeEntries(osmbin.way_free_data)
                                \ FreeEntries(s.bin.way_free_data)))
                    \cup (FreeEntries(s.bin.way_free_data)
                             \ FreeEntries(osmbin.way_free_data))
        /\ lastop' = [op |-> "update", kind |-> "way", id |-> way.id]
        /\ written' = Mark(written, Entry("way", way, action))
    /\ UNCHANGED w_left

NextWays ==
    \/ WaysOpen
    \/ WaysClose
    \/ WaysUpdateWay

(***************************************************************************)
(* Reads of an OsmCache.                                                   *)
(***************************************************************************)
PartialMaps(keys, values) == UNION { [s -> values] : s \in SUBSET keys }

Caches ==
    [ nodes : PartialMaps(NodeIds, {None, Some(Inside), Some(Far)}),
      ways : PartialMaps(WayIds, {None, Some(<<1>>), Some(<<1, 2>>)}),
      relations : UNION { { [r \in s |-> f[r]] : f \in StoredRelations } :
                            s \in SUBSET RelIds } ]

NoRead == [kind |-> "none", id |-> 0, panic |-> FALSE, ret |-> None]

InitCacheIdle ==
    /\ c_cache = EmptyCache
    /\ c_last = NoRead

InitCache ==
    /\ c_cache \in Caches
    /\ c_last = NoRead

CacheFrame ==
    UNCHANGED << storeVars, pipelineVars, filterVars, bboxVars, wayVars,
                 restVars >>

\* fn read_*(&self, id): the cache is behind a shared reference.
CacheRead(kind, id, r) ==
    /\ c_last' = [kind |-> kind, id |-> id, panic |-> r.panic, ret |-> r.ret]
    /\ UNCHANGED c_cache
    /\ CacheFrame

CacheReadNode ==
    \E id \in NodeIds : CacheRead("node", id, osmcache_read_node(c_cache, id))

CacheReadWay ==
    \E id \in WayIds : CacheRead("way", id, osmcache_read_way(c_cache, id))

CacheReadRelation ==
    \E id \in RelIds :
        CacheRead("relation", id, osmcache_read_relation(c_cache, id))

NextCache ==
    \/ CacheReadNode
    \/ CacheReadWay
    \/ CacheReadRelation

(***************************************************************************)
(* Ids at the limit of the five-byte encoding: a writer session on a store *)
(* whose files reach the records of the ids IdLimit - 1 .. IdLimit + 1.    *)
(***************************************************************************)
LimitIds == {1, IdLimit - 1, IdLimit, IdLimit + 1}

LimitNodes == { Node(id, Inside) : id \in LimitIds }

LimitWays ==
    { Way(id, nodes) :
        id \in {1, IdLimit},
        nodes \in { <<1>>, <<IdLimit - 1>>, <<IdLimit>>, <<IdLimit + 1>>,
                    <<1, IdLimit + 1>> } }

LimitRelations ==
    { Relation(id, <<Member("node", 1, "")>>, NameTag) : id \in {1, IdLimit} }

\* OsmBin::init
InitIds ==
    /\ node_crd = [i \in (0..MaxNodeId) \cup LimitIds |-> Zero(NODE_CRD_SIZE)]
    /\ node_crd_len = 0
    /\ way_idx = [i \in (0..MaxWayId) \cup {IdLimit} |-> Zero(WAY_PTR_SIZE)]
    /\ way_idx_len = 0
    /\ way_data = <<DASH, DASH>>
    /\ way_free = <<>>
    /\ relation = EmptyMap
    /\ osmbin = ClosedBin
    /\ ret = None
    /\ panicked = FALSE
    /\ lastop = NoOp
    /\ written = Untouched
    /\ once = NoUpdate
    /\ calls = 0

IdsCall ==
    /\ calls < MaxCalls
    /\ calls' = calls + 1
    /\ ~panicked
    /\ UNCHANGED << once, pipelineVars, filterVars, bboxVars, cacheVars,
                    wayVars, restVars >>

\* OsmBin::new_writer
IdsOpen ==
    /\ IdsCall
    /\ osmbin.mode = "Closed"
    /\ \E s \in {new_any(Store, "Write")} : Commit(s)
    /\ lastop' = [op |-> "open", kind |-> "none", id |-> 0]
    /\ written' = Untouched

IdsUpdateNode ==
    /\ IdsCall
    /\ osmbin.mode = "Write"
    /\ \E node \in LimitNodes :
        /\ \E s \in {update_node(Store, node, "Create")} : Commit(s)
        /\ lastop' = [op |-> "update", kind |-> "node", id |-> node.id]
        /\ written' = Mark(written, Entry("node", node, "Create"))

IdsUpdateWay ==
    /\ IdsCall
    /\ osmbin.mode = "Write"
    /\ \E way \in LimitWays :
        /\ \E s \in {update_way(Store, way, "Create")} : Fits(s) /\ Commit(s)
        /\ lastop' = [op |-> "update", kind |-> "way", id |-> way.id]
        /\ written' = Mark(written, Entry("way", way, "Create"))

IdsUpdateRelation ==
    /\ IdsCall
    /\ osmbin.mode = "Write"
    /\ \E rel \in LimitRelations :
        /\ \E s \in {update_relation(Store, rel, "Create")} : Commit(s)
        /\ lastop' = [op |-> "update", kind |-> "relation", id |-> rel.id]
        /\ written' = Mark(written, Entry("relation", rel, "Create"))

IdsReadNode ==
    /\ IdsCall
    /\ osmbin.mode = "Write"
    /\ \E id \in LimitIds :
        /\ \E s \in {read_node(Store, id)} : Commit(s)
        /\ lastop' = [op |-> "read", kind |-> "node", id |-> id]
    /\ UNCHANGED written

IdsReadWay ==
    /\ IdsCall
    /\ osmbin.mode = "Write"
    /\ \E id \in {1, IdLimit} :
        /\ \E s \in {read_way(Store, id)} : Commit(s)
        /\ lastop' = [op |-> "read", kind |-> "way", id |-> id]
    /\ UNCHANGED written

NextIds ==
    \/ IdsOpen
    \/ IdsUpdateNode
    \/ IdsUpdateWay
    \/ IdsUpdateRelation
    \/ IdsReadNode
    \/ IdsReadWay

(***************************************************************************)
(* Writes of nodes and ways in any order of ids on one writer handle, on   *)
(* a store just initialised.                                               *)
(***************************************************************************)
GapIds == 1..MaxGapId

GapNodes == { Node(id, c) : id \in GapIds, c \in {Inside, Near} }

GapWays == { Way(id, <<1>>) : id \in GapIds }

\* OsmBin::init
InitGaps ==
    /\ node_crd = [i \in 0..MaxGapId |-> Zero(NODE_CRD_SIZE)]
    /\ node_crd_len = 0
    /\ way_idx = [i \in 0..MaxGapId |-> Zero(WAY_PTR_SIZE)]
    /\ way_idx_len = 0
    /\ way_data = <<DASH, DASH>>
    /\ way_free = <<>>
    /\ relation = EmptyMap
    /\ osmbin = ClosedBin
    /\ ret = None
    /\ panicked = FALSE
    /\ lastop = NoOp
    /\ written = Untouched
    /\ once = NoUpdate
    /\ calls = 0

GapsCall ==
    /\ calls < MaxCalls
    /\ calls' = calls + 1
    /\ ~panicked
    /\ UNCHANGED << once, pipelineVars, filterVars, bboxVars, cacheVars,
                    wayVars, restVars >>

\* OsmBin::new_writer
GapsOpen ==
    /\ GapsCall
    /\ osmbin.mode = "Closed"
    /\ \E s \in {new_any(Store, "Write")} : Commit(s)
    /\ lastop' = [op |-> "open", kind |-> "none", id |-> 0]
    /\ written' = Untouched

GapsWriteNode ==
    /\ GapsCall
    /\ osmbin.mode = "Write"
    /\ \E node \in GapNodes :
        /\ \E s \in {write_node(Store, node)} : Commit(s)
        /\ lastop' = [op |-> "write", kind |-> "node", id |-> node.id]
        /\ written' = Mark(written, Entry("node", node, "Create"))

GapsWriteWay ==
    /\ GapsCall
    /\ osmbin.mode = "Write"
    /\ \E way \in GapWays :
        /\ \E s \in {write_way(Store, way)} : Fits(s) /\ Commit(s)
        /\ lastop' = [op |-> "write", kind |-> "way", id |-> way.id]
        /\ written' = Mark(written, Entry("way", way, "Create"))

NextGaps ==
    \/ GapsOpen
    \/ GapsWriteNode
    \/ GapsWriteWay

(***************************************************************************)
(* Relations of ids of nine and of ten decimal digits, written and read on *)
(* one writer handle.                                                      *)
(***************************************************************************)
LongRelIds == {1, 100000000, 1000000000, 1000000001}

LongRelations ==
    { Relation(id, m, NameTag) :
        id \in LongRelIds,
        m \in { <<Member("node", 1, "")>>, <<Member("way", 1, "")>> } }

RelsCall ==
    /\ calls < MaxCalls
    /\ calls' = calls + 1
    /\ ~panicked
    /\ UNCHANGED << once, pipelineVars, filterVars, bboxVars, cacheVars,
                    wayVars, restVars >>

\* OsmBin::new_writer
RelsOpen ==
    /\ RelsCall
    /\ osmbin.mode = "Closed"
    /\ \E s \in {new_any(Store, "Write")} : Commit(s)
    /\ lastop' = [op |-> "open", kind |-> "none", id |-> 0]
    /\ written' = Untouched

RelsWriteRelation ==
    /\ RelsCall
    /\ osmbin.mode = "Write"
    /\ \E rel \in LongRelations :
        /\ \E s \in {write_relation(Store, rel)} : Commit(s)
        /\ lastop' = [op |-> "write", kind |-> "relation", id |-> rel.id]
        /\ written' = Mark(written, Entry("relation", rel, "Create"))

RelsReadRelation ==
    /\ RelsCall
    /\ osmbin.mode = "Write"
    /\ \E id \in LongRelIds :
        /\ \E s \in {read_relation(Store, id)} : Commit(s)
        /\ lastop' = [op |-> "read", kind |-> "relation", id |-> id]
    /\ UNCHANGED written

NextRels ==
    \/ RelsOpen
    \/ RelsWriteRelation
    \/ RelsReadRelation

(***************************************************************************)
(* The polygon tree (src/src/diffs.rs, impl Poly).  A string is the        *)
(* sequence of its bytes; a directory is what read_dir yields, in the      *)
(* order it yields it, which the file system chooses.                      *)
(***************************************************************************)
\* As sort_inners, leaving the children in the order of read_dir.
unsorted(inners) == inners

\* "/" and ".poly"
Slash == <<47>>

PolyExt == <<46, 112, 111, 108, 121>>

\* PathBuf::from("None")
none_path == <<78, 111, 110, 101>>

\* Ord for str: byte by byte, a proper prefix first.
RECURSIVE StrLess(_, _)
StrLess(a, b) ==
    IF b = <<>> THEN FALSE
    ELSE IF a = <<>> THEN TRUE
    ELSE IF a[1] # b[1] THEN a[1] < b[1]
    ELSE StrLess(Tail(a), Tail(b))

FileEntry(name, ext) == [kind |-> "file", name |-> name, ext |-> ext, sub |-> <<>>]

DirEntry(name, sub) == [kind |-> "dir", name |-> name, ext |-> <<>>, sub |-> sub]

Poly(file, hier_name, inners) ==
    [file |-> file, hier_name |-> hier_name, inners |-> inners]

\* dir.exists(), for the directory that carries the name of a polygon file
dir_exists(listing, name) ==
    \E i \in DOMAIN listing :
        listing[i].kind = "dir" /\ listing[i].name = name

dir_listing(listing, name) ==
    LET i == CHOOSE k \in DOMAIN listing :
                 listing[k].kind = "dir" /\ listing[k].name = name
    IN  listing[i].sub

\* poly.exists(), for the polygon file that carries the name of a directory
poly_exists(listing, name) ==
    \E i \in DOMAIN listing :
        /\ listing[i].kind = "file"
        /\ listing[i].name = name
        /\ listing[i].ext = <<112, 111, 108, 121>>

\* Path::file_stem of a file name: the name up to its last ".", the whole
\* name when it has none or only a leading one.
file_stem(name) ==
    LET dots == { i \in DOMAIN name : name[i] = 46 /\ i > 1 }
        last == CHOOSE i \in dots : \A j \in dots : j <= i
    IN  IF dots = {} THEN name ELSE SubSeq(name, 1, last - 1)

\* a.file.as_ref().unwrap_or(&none_path).to_str()
sort_key(poly) == IF poly.file = None THEN none_path ELSE poly.file[1]

\* sort_by is stable: a child goes behind the children it does not precede.
RECURSIVE sort_insert(_, _)
sort_insert(sorted, x) ==
    IF sorted = <<>> THEN <<x>>
    ELSE IF StrLess(sort_key(x), sort_key(sorted[Len(sorted)]))
    THEN Append(sort_insert(SubSeq(sorted, 1, Len(sorted) - 1), x),
                sorted[Len(sorted)])
    ELSE Append(sorted, x)

RECURSIVE sort_inners(_)
sort_inners(inners) ==
    IF inners = <<>> THEN <<>>
    ELSE sort_insert(sort_inners(SubSeq(inners, 1, Len(inners) - 1)),
                     inners[Len(inners)])

RECURSIVE get_poly_from_path(_, _, _, _)
RECURSIVE read_entries(_, _, _, _)
\* The loop over read_dir, from entry i on.
read_entries(dir, listing, hier, i) ==
    IF i > Len(listing) THEN <<>>
    ELSE LET e == listing[i]
             rest == read_entries(dir, listing, hier, i + 1)
             path == dir \o Slash \o e.name
             \* name = path.file_stem(), of the file and of the directory
             name == IF e.kind = "file" THEN e.name ELSE file_stem(e.name)
             hier_name == hier \o Slash \o name
         IN  IF e.kind = "file"
             THEN IF e.ext # <<112, 111, 108, 121>> THEN rest
                  ELSE IF dir_exists(listing, e.name)
                  THEN << get_poly_from_path(path,
                                             dir_listing(listing, e.name),
                                             Some(path \o PolyExt),
                                             hier_name) >> \o rest
                  ELSE << Poly(Some(path \o PolyExt), hier_name, <<>>) >>
                          \o rest
             \* poly.set_extension("poly"); poly.exists()
             ELSE IF poly_exists(listing, file_stem(e.name)) THEN rest
                  ELSE << get_poly_from_path(path, e.sub, None, hier_name) >>
                          \o rest

get_poly_from_path(dir, listing, file, hier) ==
    Poly(file, hier, sort_inners(read_entries(dir, listing, hier, 1)))

get_poly_from_dir(dir, listing) ==
    get_poly_from_path(dir, listing, None, <<46>>)

\* The directories the model hands over, in read_dir's possible orders:
\* under "t", "/t" or "A", the files a.poly, b.poly and r.txt, the directory
\* a (of a.poly) holding e.poly and the directory h, and the directory c,
\* without polygon file, holding f.poly.
Perms(S) ==
    { f \in [1..Cardinality(S) -> S] :
        \A i, j \in 1..Cardinality(S) : i # j => f[i] # f[j] }

PolyDirs == { <<116>>, <<47, 116>>, <<65>> }

InnerListings ==
    Perms({ FileEntry(<<101>>, <<112, 111, 108, 121>>), DirEntry(<<104>>, <<>>) })

Listings ==
    UNION { Perms({ FileEntry(<<97>>, <<112, 111, 108, 121>>),
                    FileEntry(<<98>>, <<112, 111, 108, 121>>),
                    FileEntry(<<114>>, <<116, 120, 116>>),
                    DirEntry(<<97>>, sub),
                    DirEntry(<<99>>,
                             << FileEntry(<<102>>, <<112, 111, 108, 121>>) >>) })
            : sub \in InnerListings }

\* Under the same directories: the directory c and the directory c.d,
\* without polygon file, each holding f.poly, and the file a.poly.
DottedListings ==
    Perms({ FileEntry(<<97>>, <<112, 111, 108, 121>>),
            DirEntry(<<99>>,
                     << FileEntry(<<102>>, <<112, 111, 108, 121>>) >>),
            DirEntry(<<99, 46, 100>>,
                     << FileEntry(<<102>>, <<112, 111, 108, 121>>) >>) })

\* The files generate_diff writes for the region of a polygon: each is
\* dest_diff_dir joined with hier_name and with a name every region shares.
DiffFiles ==
    { "minute/000/000/001-tmp.osc.gz", "minute/000/000/001.osc.gz",
      "minute/000/000/001.state.txt", "minute/state.txt" }

diff_paths(poly) == { [hier_name |-> poly.hier_name, file |-> f] : f \in DiffFiles }

\* generate_diff_recursive: the polygons generate_diff is called on.
RECURSIVE diff_tasks(_)
RECURSIVE diff_tasks_inners(_)
diff_tasks(poly) ==
    (IF poly.file # None THEN <<poly>> ELSE <<>>)
        \o diff_tasks_inners(poly.inners)

diff_tasks_inners(inners) ==
    IF inners = <<>> THEN <<>>
    ELSE diff_tasks(Head(inners)) \o diff_tasks_inners(Tail(inners))

InitPolyIdle ==
    /\ p_listing = [dir |-> <<>>, entries |-> <<>>]
    /\ p_poly = None

InitPoly ==
    /\ p_listing \in [dir : PolyDirs, entries : Listings \cup DottedListings]
    /\ p_poly = None

\* Poly::get_poly_from_dir
LoadPoly ==
    /\ p_poly = None
    /\ p_poly' = Some(get_poly_from_dir(p_listing.dir, p_listing.entries))
    /\ UNCHANGED << p_listing, storeVars, pipelineVars, filterVars, bboxVars,
                    cacheVars, wayVars, taskVars, graphVars, toolVars >>

NextPoly == LoadPoly

(***************************************************************************)
(* The region tasks of one minute (src/src/diffs.rs, impl Diff): the bbox  *)
(* pass has run, its cache is shared, and generate_diff_recursive filters  *)
(* every region from the file of the region that holds it, the regions of  *)
(* one level side by side (par_iter).                                      *)
(***************************************************************************)
\* As orig_diff, every region reading the change file of the planet.
planet_diff(r, tasks, diff) == diff

TaskPoly ==
    [r \in Regions |->
        IF r = "a" THEN RegionPoly
        ELSE IF r = "a/a1" THEN BoundingBox(1000000, 3000000, 0, 2000000)
        ELSE BoundingBox(4000000, 6000000, 4000000, 6000000)]

\* OsmXmlBBox::update on a whole change file
bbox_entry(bs, reader, x) ==
    IF x.kind = "node" THEN bbox_update_node(bs, reader, x.e, x.action)
    ELSE IF x.kind = "way" THEN bbox_update_way(bs, reader, x.e, x.action)
    ELSE bbox_update_relation(bs, reader, x.e, x.action)

RECURSIVE bbox_file(_, _, _)
bbox_file(bs, reader, change) ==
    IF change = <<>> THEN bs
    ELSE bbox_entry(bbox_file(bs, reader, SubSeq(change, 1, Len(change) - 1)),
                    reader, change[Len(change)])

new_bbox ==
    [ nodes_modified |-> EmptyMap, ways_modified |-> EmptyMap,
      relations_modified |-> EmptyMap, out |-> <<>>, cache |-> EmptyCache ]

\* OsmXmlFilter::new_reader
new_filter(poly) ==
    [ poly |-> PolyInfo(poly), poly_buffered |-> PolyInfo(buffer_polygon(poly)),
      out |-> <<>> ]

filter_aborted(fs) == Aborted(fs.poly) \/ Aborted(fs.poly_buffered)

\* OsmXmlFilter::update on one entity of the file it reads
filter_entry(fs, reader, x) ==
    IF filter_aborted(fs) THEN fs
    ELSE IF x.kind = "node" THEN filter_update_node(fs, reader, x.e, x.action)
    ELSE IF x.kind = "way" THEN filter_update_way(fs, reader, x.e, x.action)
    ELSE filter_update_relation(fs, reader, x.e, x.action)

RECURSIVE filter_file(_, _, _)
filter_file(fs, reader, change) ==
    IF change = <<>> THEN fs
    ELSE filter_entry(filter_file(fs, reader,
                                  SubSeq(change, 1, Len(change) - 1)),
                      reader, change[Len(change)])

\* self.osmcache.clone(): one more handle on the same cache
arc_clone(cache) == cache

\* The file a region is filtered from: the file of the region that holds
\* it, or the change file of the planet under the root directory.
orig_diff(r, tasks, diff) ==
    IF Parent[r] = "." THEN diff ELSE tasks[Parent[r]].file[1]

\* What the store holds and the change files of this part of the model.
TaskReaders ==
    [ nodes : [NodeIds -> {None, Some(Inside), Some(Near)}],
      ways : [WayIds -> {None, Some(<<1>>)}],
      relations :
          [RelIds -> {None,
                      Some(Relation(1, <<Member("node", 1, "")>>, NameTag))}] ]

TaskEntries ==
    { Entry("node", Node(1, c), "Modify") : c \in Positions }
    \cup { Entry("way", Way(1, <<1>>), "Modify"),
           Entry("relation", Relation(1, <<Member("way", 1, "")>>, NameTag),
                 "Modify") }

TaskChanges == UNION { [1..k -> TaskEntries] : k \in 1..MaxEntries }

NoTask ==
    [ st |-> "waiting", pos |-> 0, reader |-> EmptyCache,
      fs |-> new_filter(RegionPoly), file |-> None ]

\* Diff::new_osmcache on the cache the bbox pass filled
InitTasks ==
    /\ \E reader \in TaskReaders, change \in TaskChanges :
        LET bs == bbox_file(new_bbox, reader, change)
        IN  t_shared = [cache |-> bs.cache, cache0 |-> bs.cache, diff |-> bs.out]
    /\ t_task = [r \in Regions |-> NoTask]

TasksFrame ==
    UNCHANGED << t_shared, storeVars, pipelineVars, filterVars, bboxVars,
                 cacheVars, wayVars, polyVars, graphVars, toolVars >>

\* generate_diff up to OsmXmlFilter::new_reader: the region that holds this
\* one has its file.
TaskStart ==
    /\ \E r \in Regions :
        /\ t_task[r].st = "waiting"
        /\ Parent[r] # "." => t_task[Parent[r]].st = "done"
        /\ t_task' = [t_task EXCEPT ![r] =
                         [ st |-> "running", pos |-> 0,
                           reader |-> arc_clone(t_shared.cache),
                           fs |-> new_filter(TaskPoly[r]), file |-> None ]]
    /\ TasksFrame

\* osmxml.update(orig_diff), one entity at a time
TaskStep ==
    /\ \E r \in Regions :
        LET input == orig_diff(r, t_task, t_shared.diff)
            tk == t_task[r]
        IN  /\ tk.st = "running"
            /\ tk.pos < Len(input)
            /\ \E fs \in {filter_entry(tk.fs, tk.reader,
                                       input[tk.pos + 1])} :
                t_task' = [t_task EXCEPT ![r] =
                             [tk EXCEPT !.fs = fs,
                                          !.pos = @ + 1,
                                          !.st = IF filter_aborted(fs)
                                                 THEN "failed" ELSE @]]
    /\ TasksFrame

\* The end of generate_diff: the temporary file takes its name.
TaskEnd ==
    /\ \E r \in Regions :
        LET input == orig_diff(r, t_task, t_shared.diff)
            tk == t_task[r]
        IN  /\ tk.st = "running"
            /\ tk.pos = Len(input)
            /\ t_task' = [t_task EXCEPT ![r] =
                             [tk EXCEPT !.st = "done",
                                          !.file = Some(tk.fs.out)]]
    /\ TasksFrame

NextTasks ==
    \/ TaskStart
    \/ TaskStep
    \/ TaskEnd

(***************************************************************************)
(* The relation graph: read_relation_full (src/src/osm.rs) and the check   *)
(* of the database (src/src/osmbin.rs), on a read-only handle.  A read     *)
(* changes the handle (its cache, its file positions), so every operator   *)
(* hands on the store record together with its result.                     *)
(***************************************************************************)
\* As on_chain, taking every relation below the first for a repetition.
below_root(prev_relations, id) == prev_relations # <<>>

\* prev_relations.contains(&id)
on_chain(prev_relations, id) == id \in Range(prev_relations)

ElementFull(type_, e) == [type_ |-> type_, e |-> e]

RECURSIVE read_nodes(_, _, _)
\* for n in &way.nodes { nodes.push(self.read_node(*n)) }: the store after
\* the first i reads, its ret holding what they returned
read_nodes(s, nodes, i) ==
    IF i = 0 THEN [s EXCEPT !.ret = <<>>]
    ELSE LET s1 == read_nodes(s, nodes, i - 1)
             s2 == read_node(s1, nodes[i])
         IN  [s2 EXCEPT !.ret = Append(s1.ret, s2.ret)]

read_way_full(s, id) ==
    LET s1 == read_way(s, id)
    IN  IF s1.panic \/ s1.ret = None THEN s1
        ELSE LET s2 == read_nodes(s1, s1.ret[1].nodes, Len(s1.ret[1].nodes))
             IN  [s2 EXCEPT !.ret = Some([way |-> s1.ret[1], nodes |-> s2.ret])]

RECURSIVE read_relation_full(_, _, _)
RECURSIVE read_members(_, _, _, _)
\* The loop over relation.members, up to member i.
read_members(s, rel, prev_relations, i) ==
    IF i = 0 THEN [s EXCEPT !.ret = <<>>]
    ELSE LET s1 == read_members(s, rel, prev_relations, i - 1)
             m == rel.members[i]
             s2 == IF s1.panic THEN s1
                   ELSE IF m.type_ = "node" THEN read_node(s1, m.ref_)
                   ELSE IF m.type_ = "way" THEN read_way_full(s1, m.ref_)
                   ELSE read_relation_full(s1, m.ref_,
                                           Append(prev_relations, rel.id))
         IN  [s2 EXCEPT !.ret = Append(s1.ret, ElementFull(m.type_, s2.ret))]

read_relation_full(s, id, prev_relations) ==
    IF on_chain(prev_relations, id) THEN [s EXCEPT !.ret = None]
    ELSE LET s1 == read_relation(s, id)
         IN  IF s1.ret = None THEN s1
             ELSE LET s2 == read_members(s1, s1.ret[1], prev_relations,
                                         Len(s1.ret[1].members))
                  IN  [s2 EXCEPT !.ret = Some([relation |-> s1.ret[1],
                                               members |-> s2.ret])]

\* Result<(), ElementNotFound>: None, or Some(the chain of <<type, id>> from
\* the outermost element down to the one that is not found).
Checked(s, err) == [s |-> s, err |-> err]

\* map_err(|e| ElementNotFound { type_, id, inner: Some(e) })
map_err(r, type_, id) ==
    IF r.err = None THEN r ELSE Checked(r.s, Some(<< <<type_, id>> >> \o r.err[1]))

check_node(s, id) ==
    LET s1 == read_node(s, id)
    IN  IF s1.ret = None THEN Checked(s1, Some(<< <<"node", id>> >>))
        ELSE Checked(s1, None)

RECURSIVE check_nodes(_, _, _, _)
\* for n in &way.nodes { self.check_node(*n).map_err(..)? }
check_nodes(s, id, nodes, i) ==
    IF i > Len(nodes) THEN Checked(s, None)
    ELSE LET r == map_err(check_node(s, nodes[i]), "way", id)
         IN  IF r.err # None THEN r ELSE check_nodes(r.s, id, nodes, i + 1)

check_way(s, id) ==
    IF id \in DOMAIN s.bin.cache.ways THEN Checked(s, None)
    ELSE LET s1 == read_way(s, id)
         IN  IF s1.panic THEN Checked(s1, None)
             ELSE IF s1.ret = None THEN Checked(s1, Some(<< <<"way", id>> >>))
             ELSE check_nodes(s1, id, s1.ret[1].nodes, 1)

RECURSIVE check_relation(_, _, _)
RECURSIVE check_members(_, _, _, _)
check_members(s, rel, prev_relations, i) ==
    IF i > Len(rel.members) THEN Checked(s, None)
    ELSE LET m == rel.members[i]
             r == map_err(
                      IF m.type_ = "node" THEN check_node(s, m.ref_)
                      ELSE IF m.type_ = "way" THEN check_way(s, m.ref_)
                      ELSE check_relation(s, m.ref_,
                                          Append(prev_relations, rel.id)),
                      "relation", rel.id)
         IN  IF r.err # None \/ r.s.panic THEN r
             ELSE check_members(r.s, rel, prev_relations, i + 1)

check_relation(s, id, prev_relations) ==
    IF id \in DOMAIN s.bin.cache.relations THEN Checked(s, None)
    ELSE IF on_chain(prev_relations, id) THEN Checked(s, None)
    ELSE LET s1 == read_relation(s, id)
         IN  IF s1.ret = None
             THEN Checked(s1, Some(<< <<"relation", id>> >>))
             ELSE check_members(s1, s1.ret[1], prev_relations, 1)

\* format!("{:03}", v)
format03(v) ==
    LET digits == Reverse(DigitsRev(v))
    IN  IF Len(digits) < 3 THEN Zero(3 - Len(digits)) \o digits ELSE digits

\* id_str.parse()
RECURSIVE parse(_)
parse(digits) ==
    IF digits = <<>> THEN 0
    ELSE parse(SubSeq(digits, 1, Len(digits) - 1)) * 10 + digits[Len(digits)]

\* The relation files that the loops of check_database reach: those of a
\* directory part0 not below s0 and of a directory part1 not below s1.
reached(s, start) ==
    LET s0 == format03(start \div 1000000)
        s1 == format03(start \div 1000)
    IN  { path \in DOMAIN s.relation :
            ~StrLess(path[1], s0) /\ ~StrLess(path[2], s1) }

\* The orders in which they are reached: the directories sorted, the files
\* of one directory as read_dir yields them.
walks(s, start) ==
    { walk \in Perms(reached(s, start)) :
        \A i, j \in DOMAIN walk :
            i < j => /\ ~StrLess(walk[j][1], walk[i][1])
                     /\ walk[j][1] = walk[i][1]
                          => ~StrLess(walk[j][2], walk[i][2]) }

RECURSIVE check_files(_, _, _)
\* self.check_relation(id, &[])? on the files from the i-th on
check_files(s, walk, i) ==
    IF i > Len(walk) THEN Checked(s, None)
    ELSE LET r == check_relation(s, parse(walk[i][1] \o walk[i][2] \o walk[i][3]),
                                 <<>>)
         IN  IF r.err # None \/ r.s.panic THEN r
             ELSE check_files(r.s, walk, i + 1)

check_database(s, start, walk) == check_files(s, walk, 1)

\* What the store of this part of the model holds: node 1 or not, way 1 of
\* node 1 or not, and the relations 1, 2 and 1000000.
GraphRelIds == {1, 2, 1000000}

GraphMembers ==
    { <<Member("node", 1, "")>>, <<Member("way", 1, "")>> }
    \cup { <<Member("relation", r, "")>> : r \in GraphRelIds }

GraphContents ==
    [ node : BOOLEAN, way : BOOLEAN,
      rels : [GraphRelIds -> {None} \cup {Some(m) : m \in GraphMembers}] ]

Starts == {0, 2, 1000, 1000000}

graph_change(c) ==
    (IF c.node THEN <<Entry("node", Node(1, Inside), "Create")>> ELSE <<>>)
    \o (IF c.way THEN <<Entry("way", Way(1, <<1>>), "Create")>> ELSE <<>>)
    \o (IF c.rels[1] # None
        THEN <<Entry("relation", Relation(1, c.rels[1][1], NameTag), "Create")>>
        ELSE <<>>)
    \o (IF c.rels[2] # None
        THEN <<Entry("relation", Relation(2, c.rels[2][1], NameTag), "Create")>>
        ELSE <<>>)
    \o (IF c.rels[1000000] # None
        THEN <<Entry("relation", Relation(1000000, c.rels[1000000][1], NameTag),
                     "Create")>>
        ELSE <<>>)

EmptyStore ==
    [ node_crd |-> [i \in 0..MaxNodeId |-> Zero(NODE_CRD_SIZE)],
      node_crd_len |-> 0,
      way_idx |-> [i \in 0..MaxWayId |-> Zero(WAY_PTR_SIZE)],
      way_idx_len |-> 0, way_data |-> <<DASH, DASH>>, way_free |-> <<>>,
      relation |-> EmptyMap, bin |-> ClosedBin, ret |-> None, panic |-> FALSE ]

\* OsmBin::init, and a writer session that wrote the content
written_store(c) == drop(update(new_any(EmptyStore, "Write"), graph_change(c)))

NoCall == [op |-> "none", arg |-> 0, ret |-> None, first |-> FALSE]

InitGraph ==
    /\ g_reader \in GraphContents
    /\ g_last = NoCall
    /\ \E s \in {written_store(g_reader)} :
        /\ node_crd = s.node_crd
        /\ node_crd_len = s.node_crd_len
        /\ way_idx = s.way_idx
        /\ way_idx_len = s.way_idx_len
        /\ way_data = s.way_data
        /\ way_free = s.way_free
        /\ relation = s.relation
    /\ osmbin = ClosedBin
    /\ ret = None
    /\ panicked = FALSE
    /\ lastop = NoOp
    /\ written = Untouched
    /\ once = NoUpdate
    /\ calls = 0

GraphCall ==
    /\ calls < MaxGraphCalls
    /\ calls' = calls + 1
    /\ ~panicked
    /\ UNCHANGED << g_reader, written, once, pipelineVars, filterVars,
                    bboxVars, cacheVars, wayVars, polyVars, taskVars,
                    toolVars >>

\* OsmBin::new
GraphOpen ==
    /\ GraphCall
    /\ osmbin.mode = "Closed"
    /\ \E s \in {new_any(Store, "Read")} : Commit(s)
    /\ lastop' = [op |-> "open", kind |-> "none", id |-> 0]
    /\ g_last' = NoCall

GraphReadRelationFull ==
    /\ GraphCall
    /\ osmbin.mode = "Read"
    /\ \E id \in GraphRelIds :
        /\ \E s \in {read_relation_full(Store, id, <<>>)} :
            /\ Commit(s)
            /\ g_last' = [op |-> "read_relation_full", arg |-> id,
                          ret |-> s.ret, first |-> osmbin.cache = EmptyCache]
        /\ lastop' = [op |-> "read", kind |-> "relation", id |-> id]

GraphCheckDatabase ==
    /\ GraphCall
    /\ osmbin.mode = "Read"
    /\ \E start \in Starts :
        \E walk \in walks(Store, start) :
            \E r \in {check_database(Store, start, walk)} :
                /\ Commit([r.s EXCEPT !.ret = None])
                /\ g_last' = [op |-> "check_database", arg |-> start,
                              ret |-> r.err,
                              first |-> osmbin.cache = EmptyCache]
    /\ lastop' = [op |-> "check", kind |-> "relation", id |-> 0]

NextGraph ==
    \/ GraphOpen
    \/ GraphReadRelationFull
    \/ GraphCheckDatabase

InitTasksIdle ==
    /\ t_shared = <<>>
    /\ t_task = <<>>

InitGraphIdle ==
    /\ g_reader = <<>>
    /\ g_last = <<>>

(***************************************************************************)
(* The five-byte encoding alone: OsmBin::int_to_bytes5 of an integer, then *)
(* OsmBin::bytes5_to_int of the bytes.                                     *)
(***************************************************************************)
ConvInputs == 0..(IdLimit + MaxOver)

InitConvIdle ==
    /\ conv_d = 0
    /\ conv_bytes = None
    /\ conv_int = None
    /\ conv_panic = FALSE

InitConv ==
    /\ conv_d \in ConvInputs
    /\ conv_bytes = None
    /\ conv_int = None
    /\ conv_panic = FALSE

ConvFrame ==
    UNCHANGED << conv_d, storeVars, pipelineVars, filterVars, bboxVars,
                 cacheVars, wayVars, polyVars, taskVars, graphVars,
                 downloadVars, bufVars >>

IntToBytes5 ==
    /\ conv_bytes = None
    /\ ~conv_panic
    /\ IF int_to_bytes5_panics(conv_d)
       THEN conv_panic' = TRUE /\ UNCHANGED conv_bytes
       ELSE conv_bytes' = Some(int_to_bytes5(conv_d)) /\ UNCHANGED conv_panic
    /\ UNCHANGED conv_int
    /\ ConvFrame

Bytes5ToInt ==
    /\ conv_bytes # None
    /\ conv_int = None
    /\ conv_int' = Some(bytes5_to_int(conv_bytes[1]))
    /\ UNCHANGED << conv_bytes, conv_panic >>
    /\ ConvFrame

NextConv ==
    \/ IntToBytes5
    \/ Bytes5ToInt

(***************************************************************************)
(* Update::download (src/src/update.rs): the loop around the request, one  *)
(* turn at a time, and what follows the response.  dl_net is what the      *)
(* server would answer to one request after the other.                     *)
(***************************************************************************)
\* A loop that never gives up.
never_last(i) == FALSE

\* if i == 4 { return Err(Error::Network(..)) }
last_try(i) == i = LastTry

Answers == {"Ok", "Err"}

InitDownloadIdle ==
    /\ dl_net = <<>>
    /\ dl_i = 0
    /\ dl_tried = 0
    /\ dl_result = "idle"

InitDownload ==
    /\ dl_net \in [1..MaxRequests -> Answers]
    /\ dl_i = 0
    /\ dl_tried = 0
    /\ dl_result = "loop"

DownloadFrame ==
    UNCHANGED << dl_net, storeVars, pipelineVars, filterVars, bboxVars,
                 cacheVars, wayVars, polyVars, taskVars, graphVars,
                 convVars, bufVars >>

\* One turn of the loop: ureq::get(url).call() and the match on its result,
\* then the sleep and i += 1.
DownloadCall ==
    /\ dl_result = "loop"
    /\ dl_tried < MaxRequests
    /\ dl_tried' = dl_tried + 1
    /\ IF dl_net[dl_tried + 1] = "Err"
       THEN IF last_try(dl_i)
            THEN dl_result' = "Network" /\ UNCHANGED dl_i
            ELSE dl_i' = dl_i + 1 /\ UNCHANGED dl_result
       ELSE dl_result' = "response" /\ UNCHANGED dl_i
    /\ DownloadFrame

\* After the loop: the Last-Modified header (unwrap), File::create,
\* io::copy and set_modified.
DownloadSave ==
    /\ dl_result = "response"
    /\ dl_result' \in {"Ok", "IO", "Panic"}
    /\ UNCHANGED << dl_i, dl_tried >>
    /\ DownloadFrame

NextDownload ==
    \/ DownloadCall
    \/ DownloadSave

(***************************************************************************)
(* BufReaderWriterRand (src/src/bufreaderwriter.rs) over a file, next to   *)
(* the same file without buffer.  A file is its bytes and its position;    *)
(* BufReader and BufWriter are those of std::io with a capacity of         *)
(* BufCapacity bytes.  What a call returns is [ok, val]: val is the bytes  *)
(* read, or the one number returned, and is empty for an error.            *)
(***************************************************************************)
Returned(val) == [ok |-> TRUE, val |-> val]

Failure == [ok |-> FALSE, val |-> <<>>]

SeekStart(d) == [whence |-> "Start", n |-> d]

SeekCurrent(d) == [whence |-> "Current", n |-> d]

\* File::read: the bytes from the position on, as many as asked for or as
\* the file has.
file_read(f, k) ==
    LET nread == Max(0, Min(k, Len(f.data) - f.pos))
    IN  [ f |-> [f EXCEPT !.pos = f.pos + nread],
          ret |-> SubSeq(f.data, f.pos + 1, f.pos + nread) ]

\* File::write: the bytes replace those at the position; a position past
\* the end leaves zeros in between.
file_write(f, bytes) ==
    LET old == f.data \o [i \in 1..Max(0, f.pos - Len(f.data)) |-> 0]
        end == f.pos + Len(bytes)
    IN  [ data |-> SubSeq(old, 1, f.pos) \o bytes
                       \o SubSeq(old, end + 1, Len(old)),
          pos |-> end ]

\* File::seek: a position before the start is an error.
file_seek(f, from) ==
    LET target == IF from.whence = "Start" THEN from.n ELSE f.pos + from.n
    IN  IF target < 0
        THEN [f |-> f, ret |-> Failure]
        ELSE [f |-> [f EXCEPT !.pos = target], ret |-> Returned(<<target>>)]

\* Read::read_exact on the file: read until k bytes are there or a read
\* returns nothing.
RECURSIVE file_read_exact(_, _, _)
file_read_exact(f, k, got) ==
    IF k = 0 THEN [f |-> f, ret |-> Returned(got)]
    ELSE LET r == file_read(f, k)
         IN  IF r.ret = <<>> THEN [f |-> r.f, ret |-> Failure]
             ELSE file_read_exact(r.f, k - Len(r.ret), got \o r.ret)

\* BufWriter::flush_buf
flush_buf(b) ==
    IF b.buf = <<>> THEN b
    ELSE [b EXCEPT !.inner = file_write(@, b.buf), !.buf = <<>>]

\* BufWriter::write and write_cold
bufwriter_write(b, bytes) ==
    LET spare == BufCapacity - Len(b.buf)
        c == IF Len(bytes) > spare THEN flush_buf(b) ELSE b
    IN  IF Len(bytes) < spare THEN [b EXCEPT !.buf = @ \o bytes]
        ELSE IF Len(bytes) >= BufCapacity
             THEN [c EXCEPT !.inner = file_write(@, bytes)]
             ELSE [c EXCEPT !.buf = @ \o bytes]

\* BufWriter::seek
bufwriter_seek(b, from) ==
    LET c == flush_buf(b)
        r == file_seek(c.inner, from)
    IN  [b |-> [c EXCEPT !.inner = r.f], ret |-> r.ret]

\* BufReader::discard_buffer
discard_buffer(b) == [b EXCEPT !.buf = <<>>, !.pos = 0]

\* BufReader::fill_buf
fill_buf(b) ==
    IF b.pos >= Len(b.buf)
    THEN LET r == file_read(b.inner, BufCapacity)
         IN  [b EXCEPT !.inner = r.f, !.buf = r.ret, !.pos = 0]
    ELSE b

\* BufReader::read: past the buffer for a read of its capacity or more
\* when it is empty, else from the buffer, filled first if it is empty.
bufreader_read(b, k) ==
    IF b.pos = Len(b.buf) /\ k >= BufCapacity
    THEN LET r == file_read(b.inner, k)
         IN  [b |-> [discard_buffer(b) EXCEPT !.inner = r.f], ret |-> r.ret]
    ELSE LET c == fill_buf(b)
             nread == Min(k, Len(c.buf) - c.pos)
         IN  [ b |-> [c EXCEPT !.pos = @ + nread],
               ret |-> SubSeq(c.buf, c.pos + 1, c.pos + nread) ]

\* BufReader::seek
bufreader_seek(b, from) ==
    LET remainder == Len(b.buf) - b.pos
        r == IF from.whence = "Current"
             THEN file_seek(b.inner, SeekCurrent(from.n - remainder))
             ELSE file_seek(b.inner, from)
    IN  IF r.ret.ok
        THEN [b |-> discard_buffer([b EXCEPT !.inner = r.f]), ret |-> r.ret]
        ELSE [b |-> b, ret |-> r.ret]

\* The read buffer dropped where the file stands.
drop_ahead(b) == discard_buffer(b)

\* r.seek(SeekFrom::Current(0)) of write: the read-ahead given back.
reanchor(b) == bufreader_seek(b, SeekCurrent(0)).b

\* BufIO::Writer(w) => { w.flush()?; into_inner; BufIO::Reader(..) }
to_reader(b) == [flush_buf(b) EXCEPT !.mode = "Reader", !.pos = 0]

\* BufIO::Reader(r) => { r.seek(..)?; into_inner; BufIO::Writer(..) }
to_writer(b) == [reanchor(b) EXCEPT !.mode = "Writer", !.pos = 0]

\* impl Read for BufReaderWriterRand: read
buf_read(b, k) ==
    bufreader_read(IF b.mode = "Writer" THEN to_reader(b) ELSE b, k)

\* impl Write for BufReaderWriterRand: write
buf_write(b, bytes) ==
    bufwriter_write(IF b.mode = "Reader" THEN to_writer(b) ELSE b, bytes)

\* impl Seek for BufReaderWriterRand: seek
buf_seek(b, from) ==
    IF b.mode = "Writer" THEN bufwriter_seek(b, from)
    ELSE bufreader_seek(b, from)

\* impl Seek for BufReaderWriterRand: stream_position
buf_stream_position(b) ==
    IF b.mode = "Writer" THEN b.inner.pos + Len(b.buf)
    ELSE b.inner.pos - (Len(b.buf) - b.pos)

\* Read::read_exact on the handle: the loop of std::io over read.
RECURSIVE buf_read_exact(_, _, _)
buf_read_exact(b, k, got) ==
    IF k = 0 THEN [b |-> b, ret |-> Returned(got)]
    ELSE LET r == buf_read(b, k)
         IN  IF r.ret = <<>> THEN [b |-> r.b, ret |-> Failure]
             ELSE buf_read_exact(r.b, k - Len(r.ret), got \o r.ret)

\* The file as the drop of the handle leaves it.
Dropped(b) == IF b.mode = "Writer" THEN flush_buf(b).inner.data ELSE b.inner.data

\* The read-ahead of a handle in read mode, the queued bytes in write mode.
Ahead(b) == IF b.mode = "Reader" THEN Len(b.buf) - b.pos ELSE 0

Queued(b) == IF b.mode = "Writer" THEN Len(b.buf) ELSE 0

InitialFiles == { <<>>, [i \in 1..(MaxFileLen - 1) |-> i] }

ReadLens == 1..(BufCapacity + 1)

SeekArgs ==
    { SeekStart(d) : d \in 0..MaxFileLen }
        \cup { SeekCurrent(d) : d \in (0 - BufCapacity)..BufCapacity }

InitBufIdle ==
    /\ rw = [mode |-> "Reader", inner |-> [data |-> <<>>, pos |-> 0],
             buf |-> <<>>, pos |-> 0]
    /\ rf = [data |-> <<>>, pos |-> 0]
    /\ rw_last = [op |-> "idle", ret |-> Failure, ahead |-> 0, queued |-> 0]
    /\ rf_ret = Failure
    /\ rw_calls = 0

\* new_reader or new_writer on a file, and the same file on its own.
InitBuf ==
    /\ \E d \in InitialFiles, m \in {"Reader", "Writer"} :
        /\ rw = [mode |-> m, inner |-> [data |-> d, pos |-> 0],
                 buf |-> <<>>, pos |-> 0]
        /\ rf = [data |-> d, pos |-> 0]
    /\ rw_last = [op |-> "new", ret |-> Failure, ahead |-> 0, queued |-> 0]
    /\ rf_ret = Failure
    /\ rw_calls = 0

BufFrame ==
    UNCHANGED << storeVars, pipelineVars, filterVars, bboxVars, cacheVars,
                 wayVars, polyVars, taskVars, graphVars, convVars,
                 downloadVars >>

\* One call on the handle and the same call on the file.
Called(op, b, bret, f, fret) ==
    /\ buf_stream_position(b) <= MaxFileLen
    /\ f.pos <= MaxFileLen
    /\ rw' = b
    /\ rf' = f
    /\ rw_last' = [op |-> op, ret |-> bret, ahead |-> Ahead(rw),
                   queued |-> Queued(rw)]
    /\ rf_ret' = fret

BufRead ==
    /\ rw_calls < MaxBufCalls
    /\ \E k \in ReadLens :
        LET r == buf_read(rw, k)
            s == file_read(rf, k)
        IN  Called("read", r.b, Returned(r.ret), s.f, Returned(s.ret))
    /\ rw_calls' = rw_calls + 1
    /\ BufFrame

BufReadExact ==
    /\ rw_calls < MaxBufCalls
    /\ \E k \in ReadLens :
        LET r == buf_read_exact(rw, k, <<>>)
            s == file_read_exact(rf, k, <<>>)
        IN  Called("read_exact", r.b, r.ret, s.f, s.ret)
    /\ rw_calls' = rw_calls + 1
    /\ BufFrame

\* The bytes written carry the number of the call.
BufWrite ==
    /\ rw_calls < MaxBufCalls
    /\ \E k \in ReadLens :
        LET bytes == [i \in 1..k |-> 10 + rw_calls]
        IN  Called("write", buf_write(rw, bytes), Returned(<<k>>),
                   file_write(rf, bytes), Returned(<<k>>))
    /\ rw_calls' = rw_calls + 1
    /\ BufFrame

BufSeek ==
    /\ rw_calls < MaxBufCalls
    /\ \E from \in SeekArgs :
        LET r == buf_seek(rw, from)
            s == file_seek(rf, from)
        IN  Called("seek", r.b, r.ret, s.f, s.ret)
    /\ rw_calls' = rw_calls + 1
    /\ BufFrame

BufStreamPosition ==
    /\ rw_calls < MaxBufCalls
    /\ Called("stream_position", rw,
              Returned(<<buf_stream_position(rw)>>), rf,
              Returned(<<rf.pos>>))
    /\ rw_calls' = rw_calls + 1
    /\ BufFrame

NextBuf ==
    \/ BufRead
    \/ BufReadExact
    \/ BufWrite
    \/ BufSeek
    \/ BufStreamPosition

InitToolsIdle == InitConvIdle /\ InitDownloadIdle /\ InitBufIdle

InitRestIdle ==
    InitPolyIdle /\ InitTasksIdle /\ InitGraphIdle /\ InitToolsIdle

(***************************************************************************)
(* Specifications: one part of the program at work, the others at rest.    *)
(***************************************************************************)
InitSpecStore ==
    InitStore /\ InitPipeline /\ InitFilterIdle /\ InitBBoxIdle
        /\ InitCacheIdle /\ InitWaysIdle /\ InitRestIdle

SpecStore == InitSpecStore /\ [][NextStore]_vars

InitSpecPipeline ==
    InitStore /\ InitPipeline /\ InitFilterIdle /\ InitBBoxIdle
        /\ InitCacheIdle /\ InitWaysIdle /\ InitRestIdle

SpecPipeline == InitSpecPipeline /\ [][NextPipeline]_vars

InitSpecFilter ==
    InitStore /\ InitPipeline /\ InitFilter /\ InitBBoxIdle
        /\ InitCacheIdle /\ InitWaysIdle /\ InitRestIdle

SpecFilter == InitSpecFilter /\ [][NextFilter]_vars

InitSpecBBox ==
    InitStore /\ InitPipeline /\ InitFilterIdle /\ InitBBox
        /\ InitCacheIdle /\ InitWaysIdle /\ InitRestIdle

SpecBBox == InitSpecBBox /\ [][NextBBox]_vars

InitSpecDiff ==
    InitStore /\ InitPipeline /\ InitFilterIdle /\ InitDiff
        /\ InitCacheIdle /\ InitWaysIdle /\ InitRestIdle

SpecDiff == InitSpecDiff /\ [][NextDiff]_vars

InitSpecCache ==
    InitStore /\ InitPipeline /\ InitFilterIdle /\ InitBBoxIdle /\ InitCache
        /\ InitWaysIdle /\ InitRestIdle

InitSpecWays ==
    InitWays /\ InitPipeline /\ InitFilterIdle /\ InitBBoxIdle
        /\ InitCacheIdle /\ InitWaysIdle /\ InitRestIdle

SpecWays == InitSpecWays /\ [][NextWays]_vars

SpecCache == InitSpecCache /\ [][NextCache]_vars

InitSpecIds ==
    InitIds /\ InitPipeline /\ InitFilterIdle /\ InitBBoxIdle
        /\ InitCacheIdle /\ InitWaysIdle /\ InitRestIdle

SpecIds == InitSpecIds /\ [][NextIds]_vars

InitSpecGaps ==
    InitGaps /\ InitPipeline /\ InitFilterIdle /\ InitBBoxIdle
        /\ InitCacheIdle /\ InitWaysIdle /\ InitRestIdle

SpecGaps == InitSpecGaps /\ [][NextGaps]_vars

InitSpecRels ==
    InitStore /\ InitPipeline /\ InitFilterIdle /\ InitBBoxIdle
        /\ InitCacheIdle /\ InitWaysIdle /\ InitRestIdle

SpecRels == InitSpecRels /\ [][NextRels]_vars

InitSpecPoly ==
    InitStore /\ InitPipeline /\ InitFilterIdle /\ InitBBoxIdle
        /\ InitCacheIdle /\ InitWaysIdle /\ InitPoly /\ InitTasksIdle
        /\ InitGraphIdle /\ InitToolsIdle

SpecPoly == InitSpecPoly /\ [][NextPoly]_vars

InitSpecTasks ==
    InitStore /\ InitPipeline /\ InitFilterIdle /\ InitBBoxIdle
        /\ InitCacheIdle /\ InitWaysIdle /\ InitPolyIdle /\ InitTasks
        /\ InitGraphIdle /\ InitToolsIdle

SpecTasks == InitSpecTasks /\ [][NextTasks]_vars

InitSpecGraph ==
    InitGraph /\ InitPipeline /\ InitFilterIdle /\ InitBBoxIdle
        /\ InitCacheIdle /\ InitWaysIdle /\ InitPolyIdle /\ InitTasksIdle
        /\ InitToolsIdle

SpecGraph == InitSpecGraph /\ [][NextGraph]_vars

InitSpecConv ==
    InitStore /\ InitPipeline /\ InitFilterIdle /\ InitBBoxIdle
        /\ InitCacheIdle /\ InitWaysIdle /\ InitPolyIdle /\ InitTasksIdle
        /\ InitGraphIdle /\ InitConv /\ InitDownloadIdle /\ InitBufIdle

SpecConv == InitSpecConv /\ [][NextConv]_vars

InitSpecDownload ==
    InitStore /\ InitPipeline /\ InitFilterIdle /\ InitBBoxIdle
        /\ InitCacheIdle /\ InitWaysIdle /\ InitPolyIdle /\ InitTasksIdle
        /\ InitGraphIdle /\ InitConvIdle /\ InitDownload /\ InitBufIdle

\* The process runs on: a request returns, and so do the steps after it.
SpecDownload ==
    InitSpecDownload /\ [][NextDownload]_vars
        /\ WF_vars(DownloadCall) /\ WF_vars(DownloadSave)

InitSpecBuf ==
    InitStore /\ InitPipeline /\ InitFilterIdle /\ InitBBoxIdle
        /\ InitCacheIdle /\ InitWaysIdle /\ InitPolyIdle /\ InitTasksIdle
        /\ InitGraphIdle /\ InitConvIdle /\ InitDownloadIdle /\ InitBuf

SpecBuf == InitSpecBuf /\ [][NextBuf]_vars

(***************************************************************************)
(* Properties of the store.                                                *)
(***************************************************************************)
LastRead == lastop.op = "read" /\ ~panicked

\* The last write or delete made through this handle on the entity read.
LastMutation ==
    IF lastop.id \in DOMAIN written[lastop.kind]
    THEN Some(written[lastop.kind][lastop.id])
    ELSE None

\* C1: a read that follows, on one handle, a write_* or an update_* with
\* Create or Modify of an entity e returns e, whatever reads, writes and
\* deletes the handle served before.
C1_ReadAfterWrite ==
    (LastRead /\ LastMutation # None /\ LastMutation[1] # None)
        => ret = LastMutation[1]

\* C2: when the last mutation a handle made on an id is a delete, a read of
\* that id through the handle returns absent.
C2_ReadAfterDelete ==
    (LastRead /\ LastMutation # None /\ LastMutation[1] = None)
        => ret = None

\* C3: after a change file has been applied twice, on the same writer
\* handle or on a reopened one, node.crd, way.idx, way.data and the relation
\* files are what they were after the first application.
C3_UpdateIdempotent ==
    once.n = 2 => Files(Store) = once.files

(***************************************************************************)
(* Properties of the pipeline.                                             *)
(***************************************************************************)
AllTasksDone == \A r \in Regions : task[r] = "done"

\* C4: in every execution, the store update of minute n starts only after
\* the bbox enrichment of n and every region filter task of n have
\* finished, and no read made for minute n by the enrichment or by a filter
\* sees a store that already holds change n.
C4_UpdateAfterReads ==
    /\ pc = "osmbin_update" => (enriched /\ AllTasksDone)
    /\ ~stale_read

BeforeStateRemove ==
    {"download", "bbox", "bbox_state_remove", "bbox_state_symlink", "filter",
     "osmbin_update"}

\* C5: the sequence number read through planet/minute/state.txt goes up by
\* exactly one when a minute completes, the file is repointed only after
\* the store update of that minute has completed, and a minute that fails
\* at its download, bbox, filter or store update step leaves it unchanged.
C5_StateAdvance ==
    [][ /\ (planet_state' # planet_state /\ planet_state' # None)
            => /\ pc = "state_symlink"
               /\ planet_state' = Some(last_seq + 1)
               /\ n = last_seq + 1
               /\ store_seq[n] = "full"
        /\ (pc \in BeforeStateRemove /\ result' = "Panic")
            => planet_state' = planet_state ]_vars

\* A run completed minute 1 and failed in minute 2.
C5_Witness ==
    /\ planet_state = Some(1)
    /\ result = "Panic"
    /\ n = 2
    /\ store_seq[2] = "partial"

\* C6: after a run was interrupted at any point of a minute, between the
\* removal and the re-creation of a state.txt symlink included, the next
\* run reads a valid local state and starts at the minute that follows the
\* last completed one: it never fails with a missing state and never skips
\* a sequence number.
C6_RecoverAfterInterrupt ==
    /\ result # "StateNotFound"
    /\ (pc = "download" /\ processed = <<>>) => n = last_seq + 1

\* min(remote, configured_max)
Bound ==
    IF max_state = None THEN remote_raw ELSE Min(remote_raw, max_state[1])

\* C7: a run processes the sequence numbers cur+1, cur+2, ... in strictly
\* increasing order, each once, and never one above min(remote,
\* configured_max); a run that returns Ok has processed all of them up to
\* that bound, and none when cur is equal to or greater than the bound.
C7_RunRange ==
    /\ processed = [i \in 1..Len(processed) |-> cur_state + i]
    /\ \A i \in 1..Len(processed) : processed[i] <= Bound
    /\ (pc = "idle" /\ result = "Ok")
        => Len(processed) = Max(0, Bound - cur_state)

\* A run of two minutes stopped by the configured maximum.
C7_Witness ==
    /\ pc = "idle"
    /\ result = "Ok"
    /\ Len(processed) = 2
    /\ max_state # None
    /\ max_state[1] < remote_raw

(***************************************************************************)
(* Properties of the polygon filter.                                       *)
(***************************************************************************)
OutsideOf(c, poly) ==
    \/ c[1] < poly.decimicro_minlat
    \/ c[1] > poly.decimicro_maxlat
    \/ c[2] < poly.decimicro_minlon
    \/ c[2] > poly.decimicro_maxlon

DisjointFrom(bbox, poly) ==
    \/ bbox.decimicro_maxlat < poly.decimicro_minlat
    \/ bbox.decimicro_minlat > poly.decimicro_maxlat
    \/ bbox.decimicro_maxlon < poly.decimicro_minlon
    \/ bbox.decimicro_minlon > poly.decimicro_maxlon

Within(c, bbox) ==
    /\ bbox.decimicro_minlat <= c[1]
    /\ c[1] <= bbox.decimicro_maxlat
    /\ bbox.decimicro_minlon <= c[2]
    /\ c[2] <= bbox.decimicro_maxlon

NewPosition == << f_last.e.decimicro_lat, f_last.e.decimicro_lon >>

StoredPosition(id) == f_reader.nodes[id]

\* C8: the filter emits nothing for a way or a relation whose bounding box
\* does not intersect the buffered polygon, and nothing for a node whose
\* new position and stored position are both outside the buffered polygon
\* and whose id the filter had not recorded as seen in it.
C8_NothingOutsideBuffer ==
    /\ (/\ f_last.kind \in {"way", "relation"}
        /\ \/ f_last.e.bbox = None
           \/ DisjointFrom(f_last.e.bbox[1], f_poly_buffered.poly))
        => f_last.emitted = None
    /\ (/\ f_last.kind = "node"
        /\ OutsideOf(NewPosition, f_poly_buffered.poly)
        /\ \/ StoredPosition(f_last.e.id) = None
           \/ OutsideOf(StoredPosition(f_last.e.id)[1], f_poly_buffered.poly)
        /\ ~f_last.seen)
        => f_last.emitted = None

\* A way whose only node is stored inside the polygon, handed over with a
\* bounding box far from it, and a node moved far away before it.
C8_Witness ==
    /\ f_last.kind = "way"
    /\ f_last.e.bbox = Some(Hull(Far, Far))
    /\ f_last.e.nodes = <<1>>
    /\ StoredPosition(1) = Some(Inside)
    /\ f_last.emitted = None
    /\ f_last.n = 2

\* The position a node has once the change is applied, as far as the
\* change read so far tells.
PostPosition(id) ==
    IF id \in DOMAIN f_new THEN Some(f_new[id]) ELSE StoredPosition(id)

\* The bounding box holds the stored and the new position of every node.
Enriched(bbox, ids) ==
    /\ bbox # None
    /\ \A id \in ids :
        /\ StoredPosition(id) # None => Within(StoredPosition(id)[1], bbox[1])
        /\ PostPosition(id) # None => Within(PostPosition(id)[1], bbox[1])

\* C9: a changed node or way whose geometry before the change has a point
\* inside the polygon and whose geometry after the change lies entirely
\* outside it is emitted with the action Delete.
C9_DeleteWhenLeaving ==
    /\ (/\ f_last.kind = "node"
        /\ StoredPosition(f_last.e.id) # None
        /\ ~OutsideOf(StoredPosition(f_last.e.id)[1], f_poly.poly)
        /\ OutsideOf(NewPosition, f_poly.poly))
        => f_last.emitted = Some("Delete")
    /\ (/\ f_last.kind = "way"
        /\ f_reader.ways[f_last.e.id] # None
        /\ \E id \in Range(f_reader.ways[f_last.e.id][1]) :
            /\ StoredPosition(id) # None
            /\ ~OutsideOf(StoredPosition(id)[1], f_poly.poly)
        /\ \A id \in Range(f_last.e.nodes) :
            /\ PostPosition(id) # None
            /\ OutsideOf(PostPosition(id)[1], f_poly.poly)
        /\ Enriched(f_last.e.bbox,
                    Range(f_reader.ways[f_last.e.id][1])
                        \cup Range(f_last.e.nodes)))
        => f_last.emitted = Some("Delete")

(***************************************************************************)
(* Properties of the bbox pass.                                            *)
(***************************************************************************)
\* The coordinates a node has in the store, and those the change gives it.
StoredCoords(id) ==
    IF b_reader.nodes[id] # None THEN {b_reader.nodes[id][1]} ELSE {}

AfterCoords(id) ==
    { << b_change[i].e.decimicro_lat, b_change[i].e.decimicro_lon >> :
        i \in { j \in 1..Len(b_change) :
                  /\ b_change[j].kind = "node"
                  /\ b_change[j].e.id = id
                  /\ b_change[j].action # "Delete" } }

\* The node lists a way has in the store and in the change.
WayNodes(id) ==
    (IF b_reader.ways[id] # None THEN Range(b_reader.ways[id][1]) ELSE {})
    \cup UNION { Range(b_change[i].e.nodes) :
                   i \in { j \in 1..Len(b_change) :
                             /\ b_change[j].kind = "way"
                             /\ b_change[j].e.id = id } }

MemberNodes(members) ==
    UNION { IF members[i].type_ = "node" THEN {members[i].ref_}
            ELSE IF members[i].type_ = "way" THEN WayNodes(members[i].ref_)
            ELSE {} : i \in 1..Len(members) }

\* The nodes an entity of the output refers to, by its old and new lists.
Referenced(x) ==
    IF x.kind = "way" THEN WayNodes(x.e.id)
    ELSE IF x.kind = "relation"
    THEN MemberNodes(x.e.members)
         \cup (IF b_reader.relations[x.e.id] # None
               THEN MemberNodes(b_reader.relations[x.e.id][1].members)
               ELSE {})
    ELSE {}

\* C10: the bounding box attached to a way or a relation that the pass
\* forwards contains, for every node the entity refers to directly or
\* through member ways (old and new lists), the coordinates the node had in
\* the store and the coordinates the change gives it, wherever in the
\* change file the node's own modification stands.
C10_BBoxContainsNodes ==
    \A k \in 1..Len(b_out) :
        \A id \in Referenced(b_out[k]) :
            \A c \in StoredCoords(id) \cup AfterCoords(id) :
                /\ b_out[k].e.bbox # None
                /\ Within(c, b_out[k].e.bbox[1])

(***************************************************************************)
(* Properties of diff generation.                                          *)
(***************************************************************************)
\* C11: a filter that runs over the output of the bbox pass, or over some
\* of its entities as the filter of a parent region leaves them, with the
\* cache the pass returned, never reads an id the cache has no entry for:
\* no read of the cache panics with "not found".
C11_CacheCovers ==
    f_poly.abort # "not found" /\ f_poly_buffered.abort # "not found"

\* A filter has gone through a change and has written a relation of it that
\* refers to a relation stored with a relation among its members.
C11_Witness ==
    /\ d_pos = Len(b_out)
    /\ d_pos > 0
    /\ \E i \in DOMAIN b_out :
        /\ b_out[i].kind = "relation"
        /\ \E o \in DOMAIN f_out : f_out[o].e = b_out[i].e
        /\ \E j \in DOMAIN b_out[i].e.members :
            LET m == b_out[i].e.members[j]
            IN  /\ m.type_ = "relation"
                /\ m.ref_ \in DOMAIN f_reader.relations
                /\ f_reader.relations[m.ref_] # None
                /\ \E k \in DOMAIN f_reader.relations[m.ref_][1].members :
                     f_reader.relations[m.ref_][1].members[k].type_
                         = "relation"

(***************************************************************************)
(* Properties of the cache.                                                *)
(***************************************************************************)
\* The entries of the cache for the kind last read.
CacheMap == 
    IF c_last.kind = "node" THEN c_cache.nodes
    ELSE IF c_last.kind = "way" THEN c_cache.ways
    ELSE c_cache.relations

\* The data a present entry stands for.
Stored(kind, id, data) ==
    IF kind = "node" THEN Node(id, data)
    ELSE IF kind = "way" THEN Way(id, data)
    ELSE data

\* C12: a read of an id the cache has no entry for panics; a read of an id
\* with an absent entry returns absent; a read of an id with a present
\* entry returns the data stored; and no read changes the cache.
C12_CacheRead ==
    /\ [](c_last.kind # "none" =>
            IF c_last.id \notin DOMAIN CacheMap THEN c_last.panic
            ELSE /\ ~c_last.panic
                 /\ IF CacheMap[c_last.id] = None THEN c_last.ret = None
                    ELSE c_last.ret =
                           Some(Stored(c_last.kind, c_last.id,
                                       CacheMap[c_last.id][1])))
    /\ [][c_cache' = c_cache]_vars

\* A node with a present entry has been read and its data returned, from a
\* cache that also holds an absent entry for a node and has no entry for a
\* way.
C12_Witness ==
    /\ c_last.kind = "node"
    /\ ~c_last.panic
    /\ c_last.ret # None
    /\ \E id \in DOMAIN c_cache.nodes : c_cache.nodes[id] = None
    /\ \E id \in WayIds : id \notin DOMAIN c_cache.ways

\* What a read answers for an entry of the cache.
Answer(kind, id, entry) ==
    IF entry = None THEN None ELSE Some(Stored(kind, id, entry[1]))

CacheOf(bin, kind) ==
    IF kind = "node" THEN bin.cache.nodes
    ELSE IF kind = "way" THEN bin.cache.ways
    ELSE bin.cache.relations

\* C13: on one handle, a read of an id the cache has an entry for is
\* answered from that entry and leaves the handle, file positions included,
\* as it was; a read of an id the cache has no entry for leaves an entry,
\* present or absent, that is what it returns; and no operation on the
\* handle changes or removes an entry.
C13_ResolvedOnce ==
    [][ /\ (calls' = calls + 1 /\ lastop'.op = "read" /\ ~panicked') =>
             LET kind == lastop'.kind
                 id == lastop'.id
             IN  IF id \in DOMAIN CacheOf(osmbin, kind)
                 THEN /\ osmbin' = osmbin
                      /\ ret' = Answer(kind, id, CacheOf(osmbin, kind)[id])
                 ELSE /\ id \in DOMAIN CacheOf(osmbin', kind)
                      /\ ret' = Answer(kind, id, CacheOf(osmbin', kind)[id])
        /\ (osmbin.mode # "Closed" /\ osmbin'.mode # "Closed") =>
             \A kind \in {"node", "way", "relation"} :
                 \A id \in DOMAIN CacheOf(osmbin, kind) :
                     /\ id \in DOMAIN CacheOf(osmbin', kind)
                     /\ CacheOf(osmbin', kind)[id] = CacheOf(osmbin, kind)[id]
      ]_vars

\* A read has been answered from an entry of the cache that a present node
\* left, after the handle wrote the node again.
C13_Witness ==
    /\ LastRead
    /\ lastop.kind = "node"
    /\ ret # None
    /\ LastMutation # None
    /\ Some(ret[1]) # LastMutation[1]

(***************************************************************************)
(* Properties of the free list.                                            *)
(***************************************************************************)
Bucket(map, k) == IF k \in DOMAIN map THEN map[k] ELSE <<>>

\* The offset way.idx holds for a way: 0 when it holds none.
OffsetOf(idx, id) == bytes5_to_int(idx[id])

\* The node count way.data holds at an offset.
CountAt(data, o) == bytes2_to_int(SubSeq(data, o + 1, o + NUM_NODES_SIZE))

WayStep ==
    /\ calls' = calls + 1
    /\ lastop'.op = "update"
    /\ lastop'.kind = "way"
    /\ ~panicked'

\* C14: the delete of a stored way of k nodes pushes its offset on the
\* bucket of k.  The write of a way of k nodes while the bucket of k is not
\* empty stores it at an offset popped from the bucket (the last one, or the
\* way's own former offset, freed by the write itself) and does not extend
\* way.data; a way stored at the end of way.data found the bucket empty,
\* and a new way that finds it empty is stored at the end.
C14_FreeListReuse ==
    [][ WayStep =>
          LET id == lastop'.id
              left == written'.way[id]
              free == osmbin.way_free_data
              old == OffsetOf(way_idx, id)
          IN  IF left = None
              THEN old # 0 =>
                     Bucket(osmbin'.way_free_data, CountAt(way_data, old))
                       = Append(Bucket(free, CountAt(way_data, old)), old)
              ELSE LET k == Len(left[1].nodes)
                       b == Bucket(free, k)
                       new == OffsetOf(way_idx', id)
                   IN  /\ b # <<>> =>
                            /\ Len(way_data') = Len(way_data)
                            /\ new = b[Len(b)] \/ new = old
                            /\ <<k, new>> \notin
                                   FreeEntries(osmbin'.way_free_data)
                       /\ new = Len(way_data) => b = <<>>
                       /\ (b = <<>> /\ old = 0) => new = Len(way_data)
      ]_vars

\* Ways 1 and 2, of one node each, were written, way 1 was deleted, and way
\* 3, of one node, now stands where way 1 stood.
C14_Witness ==
    /\ lastop = [op |-> "update", kind |-> "way", id |-> 3]
    /\ OffsetOf(way_idx, 1) = 0
    /\ OffsetOf(way_idx, 2) = 2 + NUM_NODES_SIZE + NODE_ID_SIZE
    /\ OffsetOf(way_idx, 3) = 2
    /\ CountAt(way_data, 2) = 1
    /\ Len(way_data) = 2 + 2 * (NUM_NODES_SIZE + NODE_ID_SIZE)

\* C15: a writer session finds in the free list it loads every offset that
\* the writer session before it freed and had not reused when it closed,
\* under the same node count.
C15_FreeListSurvives ==
    (lastop.op = "open" /\ osmbin.mode = "Write" /\ w_left # None)
        => w_left[1] \subseteq FreeEntries(osmbin.way_free_data)
(***************************************************************************)
(* Properties of the id limit.                                             *)
(***************************************************************************)
\* An id that does not fit in 40 bits (five bytes).
TooBig(id) == id >= IdLimit

\* C16: the write of a node, way or relation whose own id does not fit in
\* 40 bits, or of a way that lists a node id that does not fit in 40 bits,
\* ends in a fatal error.
C16_BigIdsRejected ==
    \A node \in LimitNodes, way \in LimitWays, rel \in LimitRelations :
        /\ (/\ lastop = [op |-> "update", kind |-> "node", id |-> node.id]
            /\ TooBig(node.id))
              => panicked
        /\ (/\ lastop = [op |-> "update", kind |-> "way", id |-> way.id]
            /\ written.way[way.id] = Some(way)
            /\ \/ TooBig(way.id)
               \/ \E i \in DOMAIN way.nodes : TooBig(way.nodes[i]))
              => panicked
        /\ (/\ lastop = [op |-> "update", kind |-> "relation", id |-> rel.id]
            /\ TooBig(rel.id))
              => panicked
(***************************************************************************)
(* Properties of the polygon tree.                                         *)
(***************************************************************************)
RECURSIVE AllPolys(_)
AllPolys(poly) ==
    {poly} \cup UNION { AllPolys(poly.inners[i]) : i \in DOMAIN poly.inners }

\* C17: the children of every node of the polygon tree stand in ascending
\* order of the path of their polygon file, a child without polygon file
\* standing where the path "None" would: behind the paths that are smaller
\* than "None" as strings and before the others.
C17_SortedByKey ==
    p_poly # None =>
        \A poly \in AllPolys(p_poly[1]) :
            \A i, j \in DOMAIN poly.inners :
                i < j => ~StrLess(sort_key(poly.inners[j]),
                                  sort_key(poly.inners[i]))

\* The tree loaded from "t": under the root and under a, a child without
\* polygon file stands before a child with one.
C17_Witness ==
    /\ p_poly # None
    /\ p_listing.dir = <<116>>
    /\ \A poly \in {p_poly[1], p_poly[1].inners[2]} :
        /\ Len(poly.inners) >= 2
        /\ poly.inners[1].file = None
        /\ poly.inners[2].file # None

\* C17 as the specification states it: the children of every node stand in
\* ascending order of the path of their polygon file, and every child
\* without polygon file stands behind all the children that have one,
\* whatever directory the loader was given.
C17_NoFileLast ==
    p_poly # None =>
        \A poly \in AllPolys(p_poly[1]) :
            \A i, j \in DOMAIN poly.inners :
                i < j =>
                    /\ (poly.inners[i].file # None /\ poly.inners[j].file # None)
                         => ~StrLess(poly.inners[j].file[1],
                                     poly.inners[i].file[1])
                    /\ poly.inners[i].file = None
                         => poly.inners[j].file = None
(***************************************************************************)
(* Properties of the region tasks.                                         *)
(***************************************************************************)
\* generate_diff_recursive with the regions taken one after the other: the
\* file of region r.
RECURSIVE sequential(_, _, _)
sequential(r, cache, diff) ==
    filter_file(new_filter(TaskPoly[r]), cache,
                IF Parent[r] = "." THEN diff
                ELSE sequential(Parent[r], cache, diff)).out

StoredNode(id) == id = 1 /\ g_reader.node

StoredWay(id) == id = 1 /\ g_reader.way

StoredRel(id) == id \in GraphRelIds /\ g_reader.rels[id] # None

\* A way read in full: the way written, every node of it absent exactly
\* when it is not stored.
WayFullOK(full, id) ==
    IF ~StoredWay(id) THEN full = None
    ELSE /\ full # None
         /\ full[1].way = Way(id, <<1>>)
         /\ Len(full[1].nodes) = 1
         /\ full[1].nodes[1] = None <=> ~StoredNode(1)

RECURSIVE FullOK(_, _, _)
\* A relation read in full below the ancestors prev: absent when it is one
\* of them or is not stored, else the relation written with one element
\* for each member, read in full below prev and the relation itself.
FullOK(full, id, prev) ==
    IF id \in Range(prev) \/ ~StoredRel(id) THEN full = None
    ELSE LET members == g_reader.rels[id][1]
         IN  /\ full # None
             /\ full[1].relation = Relation(id, members, NameTag)
             /\ Len(full[1].members) = Len(members)
             /\ \A i \in DOMAIN members :
                  LET m == members[i]
                      f == full[1].members[i]
                  IN  /\ f.type_ = m.type_
                      /\ m.type_ = "node"
                           => (f.e = None <=> ~StoredNode(m.ref_))
                      /\ m.type_ = "way" => WayFullOK(f.e, m.ref_)
                      /\ m.type_ = "relation"
                           => FullOK(f.e, m.ref_, Append(prev, id))

\* C19: read_relation_full returns, whatever relations the store holds and
\* whether or not they refer to themselves or to each other in a cycle; a
\* member that refers to a relation among its ancestors is returned as
\* absent, every other member as what the store holds, and no error is
\* raised.
C19_ReadRelationFull ==
    g_last.op = "read_relation_full"
        => /\ ~panicked
           /\ ret = g_last.ret
           /\ FullOK(g_last.ret, g_last.arg, <<>>)

\* Relation 1 holds relation 2, which holds relation 1: read in full,
\* relation 1 holds relation 2, whose member is absent.
C19_Witness ==
    /\ g_last.op = "read_relation_full"
    /\ g_last.arg = 1
    /\ g_reader.rels[1] = Some(<<Member("relation", 2, "")>>)
    /\ g_reader.rels[2] = Some(<<Member("relation", 1, "")>>)
    /\ g_last.ret # None
    /\ g_last.ret[1].members[1].e # None
    /\ g_last.ret[1].members[1].e[1].relation.id = 2
    /\ g_last.ret[1].members[1].e[1].members[1] = ElementFull("relation", None)

\* The elements a stored element refers to.
Refs(x) ==
    IF x[1] = "relation" /\ StoredRel(x[2])
    THEN { << g_reader.rels[x[2]][1][i].type_, g_reader.rels[x[2]][1][i].ref_ >> :
             i \in DOMAIN g_reader.rels[x[2]][1] }
    ELSE IF x[1] = "way" /\ StoredWay(x[2]) THEN { <<"node", 1>> }
    ELSE {}

Absent(x) ==
    IF x[1] = "node" THEN ~StoredNode(x[2])
    ELSE IF x[1] = "way" THEN ~StoredWay(x[2])
    ELSE ~StoredRel(x[2])

RECURSIVE Broken(_, _)
\* The relation id, below the ancestors prev, refers to an absent element,
\* directly or through its ways and the relations below it; a relation
\* among the ancestors is passed over.
Broken(id, prev) ==
    IF id \in Range(prev) THEN FALSE
    ELSE \E x \in Refs(<<"relation", id>>) :
            \/ Absent(x)
            \/ x[1] = "way" /\ \E y \in Refs(x) : Absent(y)
            \/ x[1] = "relation" /\ Broken(x[2], Append(prev, id))

\* C20: the check of the database from start on, made on a handle that has
\* read nothing yet, fails exactly when a stored relation with an id of
\* start or more refers to an absent element, and the error then lists a
\* stored relation, the elements that lead from it to the absent one, each
\* referred to by the one before, and the absent element last.
C20_CheckFindsBroken ==
    (g_last.op = "check_database" /\ g_last.first)
        => /\ g_last.ret # None
                <=> \E id \in GraphRelIds :
                        /\ id >= g_last.arg
                        /\ StoredRel(id)
                        /\ Broken(id, <<>>)
           /\ g_last.ret # None
                => LET chain == g_last.ret[1]
                   IN  /\ chain[1][1] = "relation"
                       /\ StoredRel(chain[1][2])
                       /\ Absent(chain[Len(chain)])
                       /\ \A i \in 1..(Len(chain) - 1) :
                            chain[i + 1] \in Refs(chain[i])
(***************************************************************************)
(* Properties of the order of the entities.                                *)
(***************************************************************************)
\* Entity x of one file is entity y of another: same kind, same id, same
\* node list, members or position.
SameEntity(x, y) ==
    /\ x.kind = y.kind
    /\ x.e.id = y.e.id
    /\ x.kind = "node" => x.e = y.e
    /\ x.kind = "way" => x.e.nodes = y.e.nodes
    /\ x.kind = "relation" => x.e.members = y.e.members

\* C21: the bbox pass writes the entities it has read so far, each once, in
\* the order of the change file and under the action it came with; what
\* the filter has written is a subsequence of the entities it has read, in
\* their order, each under the action it came with or under Delete.
C21_OrderKept ==
    /\ Len(b_out) <= Len(b_change)
    /\ \A i \in DOMAIN b_out :
        /\ SameEntity(b_out[i], b_change[i])
        /\ b_out[i].action = b_change[i].action
    /\ d_pos >= 0 =>
        \E g \in [DOMAIN f_out -> 1..d_pos] :
            /\ \A k, l \in DOMAIN f_out : k < l => g[k] < g[l]
            /\ \A k \in DOMAIN f_out :
                /\ f_out[k].kind = b_out[g[k]].kind
                /\ f_out[k].e = b_out[g[k]].e
                /\ f_out[k].action \in {b_out[g[k]].action, "Delete"}

\* Two entities went through the bbox pass and the filter; the filter left
\* out the first and wrote the second, which came under Modify, under
\* Delete.
C21_Witness ==
    /\ Len(b_out) = 2
    /\ d_pos = 2
    /\ Len(f_out) = 1
    /\ f_out[1].e = b_out[2].e
    /\ f_out[1].kind = b_out[2].kind
    /\ b_out[1].e.id # b_out[2].e.id
    /\ b_out[2].action = "Modify"
    /\ f_out[1].action = "Delete"

\* ---------------------------------------------------------------------
\* Properties of the relation tests of the filter
\* ---------------------------------------------------------------------

\* C22: the filter's test of a relation returns for every relation graph
\* the reader holds, cycles included: no test runs out of stack walking
\* from relation to relation.
C22_RelationTestReturns ==
    /\ f_poly.abort # "stack overflow"
    /\ f_poly_buffered.abort # "stack overflow"

\* ---------------------------------------------------------------------
\* Properties of the relation walk of the bbox pass
\* ---------------------------------------------------------------------
\* The read_relation calls made for the i-th entity of the change file.
CallsOf(i) == calls_relation(b_reader, b_change[i].e)

NoRepeat(chain) ==
    \A i, j \in DOMAIN chain : chain[i] = chain[j] => i = j

\* The number of calls that read relation id.
TimesRead(cs, id) ==
    Cardinality({ k \in DOMAIN cs : cs[k][Len(cs[k])] = id })

\* C23: the walk the bbox pass makes for a relation returns whatever the
\* relations of the reader hold, cycles included: no chain of relations it
\* follows meets a relation twice, so none is longer than the number of
\* relations, and each relation is read at most once from the stored
\* relation and once from the relation of the file.  Stated of the entity
\* the pass wrote last, which every entity of the file is in its turn.
C23_WalkBounded ==
    (d_pos = -1 /\ Len(b_out) >= 1 /\ b_out[Len(b_out)].kind = "relation") =>
        LET cs == CallsOf(Len(b_out))
        IN  /\ \A k \in DOMAIN cs :
                  /\ cs[k] # TooDeep
                  /\ NoRepeat(cs[k])
                  /\ Len(cs[k]) <= MaxNestRelId
            /\ \A id \in NestRelIds : TimesRead(cs, id) <= 2

\* Relations 1 and 2 hold each other, and the pass has computed the box of
\* a relation 1 of the file that names relation 2: it read 1, 2 and 2.
C23_Witness ==
    /\ Len(b_out) >= 1
    /\ b_out[1].kind = "relation"
    /\ b_out[1].e.id = 1
    /\ b_reader.relations[1] # None
    /\ b_reader.relations[2] # None
    /\ \E m \in DOMAIN b_reader.relations[1][1].members :
          LET x == b_reader.relations[1][1].members[m]
          IN  x.type_ = "relation" /\ x.ref_ = 2
    /\ \E m \in DOMAIN b_reader.relations[2][1].members :
          LET x == b_reader.relations[2][1].members[m]
          IN  x.type_ = "relation" /\ x.ref_ = 1
    /\ CallsOf(1) = << <<1>>, <<1, 2>>, <<1, 2>> >>

\* ---------------------------------------------------------------------
\* Properties of the rules of the filter
\* ---------------------------------------------------------------------
In(c, poly) == ~OutsideOf(c, poly)

\* The step is the filter's update of a node, a way or a relation.
StepOf(kind) == f_last'.n = f_last.n + 1 /\ f_last'.kind = kind

\* The node's new position is in the buffered polygon, or the filter had
\* its id in nodes_in_buffered, or its stored position is in the buffered
\* polygon.
NodeConcerned(node) ==
    \/ In(<< node.decimicro_lat, node.decimicro_lon >>, f_poly_buffered.poly)
    \/ node.id \in f_poly_buffered.nodes_seen_in_poly
    \/ /\ StoredPosition(node.id) # None
       /\ In(StoredPosition(node.id)[1], f_poly_buffered.poly)

\* C24: the node rule of the filter.  A node with action A and new position
\* p that is concerned (p in P+, or id already in nodes_in_buffered, or
\* stored position in P+) is written with A and recorded in nodes_in and
\* nodes_in_buffered when p is in P, written with Delete and recorded in
\* nodes_in_buffered only when p is not in P; a node that is not concerned
\* is not written and not recorded.
C24_NodeRule ==
    [][StepOf("node") =>
        LET node == f_last'.e
            inP == In(<< node.decimicro_lat, node.decimicro_lon >>, f_poly.poly)
            in == f_poly.nodes_seen_in_poly
            in_buffered == f_poly_buffered.nodes_seen_in_poly
        IN  /\ (NodeConcerned(node) /\ inP) =>
                  /\ f_last'.emitted = Some(f_last'.action)
                  /\ f_poly'.nodes_seen_in_poly = in \cup {node.id}
                  /\ f_poly_buffered'.nodes_seen_in_poly =
                         in_buffered \cup {node.id}
            /\ (NodeConcerned(node) /\ ~inP) =>
                  /\ f_last'.emitted = Some("Delete")
                  /\ f_poly'.nodes_seen_in_poly = in
                  /\ f_poly_buffered'.nodes_seen_in_poly =
                         in_buffered \cup {node.id}
            /\ ~NodeConcerned(node) =>
                  /\ f_last'.emitted = None
                  /\ f_poly'.nodes_seen_in_poly = in
                  /\ f_poly_buffered'.nodes_seen_in_poly = in_buffered
    ]_vars

\* A node stored inside the polygon is moved far away by a <modify>: the
\* first node the filter reads, and written as a delete.
C24_Witness ==
    /\ f_last.n = 1
    /\ f_last.kind = "node"
    /\ f_last.action = "Modify"
    /\ NewPosition = Far
    /\ StoredPosition(f_last.e.id) = Some(Inside)
    /\ f_last.emitted = Some("Delete")
    /\ f_last.e.id \in f_poly_buffered.nodes_seen_in_poly
    /\ f_last.e.id \notin f_poly.nodes_seen_in_poly

\* The filter holds the node to be in the polygon of pi: it recorded the id
\* there, or the position the reader has for it is in the polygon.
NodeKnownIn(id, pi) ==
    \/ id \in pi.nodes_seen_in_poly
    \/ /\ StoredPosition(id) # None
       /\ In(StoredPosition(id)[1], pi.poly)

AnyNodeKnownIn(nodes, pi) == \E i \in DOMAIN nodes : NodeKnownIn(nodes[i], pi)

\* The way the reader has for the id has a node in the polygon of pi.
StoredWayIn(id, pi) ==
    /\ f_reader.ways[id] # None
    /\ AnyNodeKnownIn(f_reader.ways[id][1], pi)

BBoxMeets(e, poly) == e.bbox # None /\ ~DisjointFrom(e.bbox[1], poly)

\* The rule the filter applies to the way of a step, prior standing for
\* what makes the way that was there before count as in P+.
WayRule(prior(_)) ==
    StepOf("way") =>
        LET way == f_last'.e
            inP == AnyNodeKnownIn(way.nodes, f_poly)
            inBuffered == \/ AnyNodeKnownIn(way.nodes, f_poly_buffered)
                          \/ prior(way.id)
        IN  /\ ~BBoxMeets(way, f_poly_buffered.poly) =>
                  f_last'.emitted = None
            /\ (BBoxMeets(way, f_poly_buffered.poly) /\ inP) =>
                  /\ f_last'.emitted = Some(f_last'.action)
                  /\ f_poly'.ways_seen_in_poly =
                         f_poly.ways_seen_in_poly \cup {way.id}
                  /\ f_poly_buffered'.ways_seen_in_poly =
                         f_poly_buffered.ways_seen_in_poly \cup {way.id}
            /\ (BBoxMeets(way, f_poly_buffered.poly) /\ ~inP /\ inBuffered) =>
                  /\ f_last'.emitted = Some("Delete")
                  /\ f_poly'.ways_seen_in_poly = f_poly.ways_seen_in_poly
            /\ (BBoxMeets(way, f_poly_buffered.poly) /\ ~inP /\ ~inBuffered) =>
                  /\ f_last'.emitted = None
                  /\ f_poly'.ways_seen_in_poly = f_poly.ways_seen_in_poly

PriorStored(id) == StoredWayIn(id, f_poly_buffered)

PriorStoredOrSeen(id) ==
    id \in f_poly_buffered.ways_seen_in_poly \/ StoredWayIn(id, f_poly_buffered)

\* C25: the way rule of the filter as stated.  A way whose bbox meets P+ is
\* written with its action when a node of its new list is in P; else with
\* Delete when a node of its new list is in P+ or the stored way has a node
\* in P+; else it is not written.  A way written with Delete is not
\* recorded in ways_in.
C25_WayRuleAsStated == [][WayRule(PriorStored)]_vars

\* C25, amended: as above, and the way is also written with Delete when
\* its id is already in ways_in_buffered.
C25_WayRule == [][WayRule(PriorStoredOrSeen)]_vars

\* A way the filter wrote as a delete for a stored node near the polygon
\* comes again with a node far away: it is written as a delete again, on
\* the strength of ways_in_buffered alone, and is not in ways_in.
C25_Witness ==
    /\ f_last.n = 2
    /\ f_last.kind = "way"
    /\ f_last.seen
    /\ f_last.action = "Modify"
    /\ f_last.e.nodes = <<2>>
    /\ BBoxMeets(f_last.e, f_poly_buffered.poly)
    /\ ~NodeKnownIn(2, f_poly_buffered)
    /\ ~StoredWayIn(f_last.e.id, f_poly_buffered)
    /\ f_last.emitted = Some("Delete")
    /\ f_last.e.id \notin f_poly.ways_seen_in_poly

\* ---------------------------------------------------------------------
\* Properties of the enriched change file
\* ---------------------------------------------------------------------

\* C26: every way and every relation the bbox pass has written carries a
\* bbox, whatever the change file and the store hold.
C26_BBoxOnEveryWay ==
    \A i \in DOMAIN b_out :
        b_out[i].kind \in {"way", "relation"} => b_out[i].e.bbox # None

\* ---------------------------------------------------------------------
\* Properties of way.idx and way.data
\* ---------------------------------------------------------------------
WaySlot(id) == RecAt(way_idx, way_idx_len, id * WAY_PTR_SIZE, WAY_PTR_SIZE)

\* read_way(id) on the handle as it stands returns None.
ReadsAbsent(id) ==
    ~read_way(Store, id).panic /\ read_way(Store, id).ret = None

\* C27: whatever operations an open handle has served, a way reads as
\* absent exactly when its way.idx slot is all zero, and every slot that is
\* not points to a record of way.data whose node count is not zero.
C27_WayIndexSound ==
    (osmbin.mode # "Closed" /\ ~panicked) =>
        \A id \in WayIds :
            /\ ReadsAbsent(id) <=> WaySlot(id) = Zero(WAY_PTR_SIZE)
            /\ WaySlot(id) # Zero(WAY_PTR_SIZE) =>
                  /\ CanReadExact(way_data, bytes5_to_int(WaySlot(id)),
                                  NUM_NODES_SIZE)
                  /\ ReadExact(way_data, bytes5_to_int(WaySlot(id)),
                               NUM_NODES_SIZE) # Zero(NUM_NODES_SIZE)

\* ---------------------------------------------------------------------
\* Properties of the node at latitude 0, longitude 0
\* ---------------------------------------------------------------------
ZeroZero(id) == Node(id, <<0, 0>>)

NodeRec(id) ==
    RecAt(node_crd, node_crd_len, id * NODE_CRD_SIZE, NODE_CRD_SIZE)

\* The last thing the handle did to the node was to write it at (0, 0).
WrittenZeroZero(id) ==
    /\ id \in DOMAIN written.node
    /\ written.node[id] = Some(ZeroZero(id))

C29_RoundTripOrPanic ==
    /\ (conv_d < IdLimit /\ conv_int # None) => conv_int = Some(conv_d)
    /\ (conv_d < IdLimit) => ~conv_panic
    /\ (conv_d >= IdLimit) => conv_bytes = None

\* ---------------------------------------------------------------------
\* Properties of download
\* ---------------------------------------------------------------------
Failed(k) == \A j \in 1..k : dl_net[j] = "Err"

LoopLeft == dl_result \in {"response", "Ok", "IO", "Panic"}

DownloadSafe ==
    /\ dl_tried <= LastTry + 1
    /\ LoopLeft => (dl_net[dl_tried] = "Ok" /\ Failed(dl_tried - 1))
    /\ dl_result = "loop" => Failed(dl_tried)
    /\ dl_result = "Network" => (dl_tried = LastTry + 1 /\ Failed(dl_tried))

C31_NoSharedPath ==
    p_poly # None =>
        LET tasks == diff_tasks(p_poly[1])
        IN  \A i, j \in DOMAIN tasks :
                i # j => diff_paths(tasks[i]) \cap diff_paths(tasks[j]) = {}

\* ---------------------------------------------------------------------
\* Properties of the buffered handle
\* ---------------------------------------------------------------------

\* The handle and the file stand at the same position and, once the
\* handle is dropped, hold the same bytes.
Agree == buf_stream_position(rw) = rf.pos /\ Dropped(rw) = rf.data

IsPrefix(s, t) == Len(s) <= Len(t) /\ s = SubSeq(t, 1, Len(s))

BufStep == rw_calls' = rw_calls + 1

\* C32, as stated: whatever the calls, each returns on the handle what it
\* returns on the file, a read included.
C32_SameAsUnbuffered == rw_last.ret = rf_ret /\ Agree

\* C32: from a handle that agrees with the file, read_exact, write, seek
\* and stream_position return what they return on the file and leave the
\* position and the bytes of the file the same; one read returns a start
\* of what the file returns, not empty unless that is, and leaves the
\* bytes the same.
C32_Refines ==
    [][(BufStep /\ Agree) =>
         IF rw_last'.op = "read"
         THEN /\ IsPrefix(rw_last'.ret.val, rf_ret'.val)
              /\ (rf_ret'.val # <<>> => rw_last'.ret.val # <<>>)
              /\ Dropped(rw') = rf'.data
              /\ buf_stream_position(rw')
                     = buf_stream_position(rw) + Len(rw_last'.ret.val)
         ELSE rw_last'.ret = rf_ret' /\ Agree']_vars

\* A write has followed a read that left read-ahead in the buffer, and
\* the handle agrees with the file.
C32_Witness ==
    /\ Agree
    /\ rw_last.op = "write"
    /\ rw_last.ahead > 0
    /\ rw_calls >= 2

\* ---------------------------------------------------------------------
\* Properties of the writes of the store
\* ---------------------------------------------------------------------

\* What way.idx and way.data hold of a way: nothing for a slot of zeros,
\* else the record the slot points to, as far as way.data has it.
WayBack(id) ==
    LET slot == WaySlot(id)
        addr == bytes5_to_int(slot)
        cnt == IF CanReadExact(way_data, addr, NUM_NODES_SIZE)
               THEN bytes2_to_int(ReadExact(way_data, addr, NUM_NODES_SIZE))
               ELSE 0
    IN  IF slot = Zero(WAY_PTR_SIZE) THEN None
        ELSE Some(SubSeq(way_data, addr + 1,
                         addr + NUM_NODES_SIZE + cnt * NODE_ID_SIZE))

\* C33: a write_node or write_way of an id leaves what the files hold of
\* every other id of the kind as it was.
C33_WriteFrame ==
    [][lastop'.op = "write" /\ calls' = calls + 1 =>
         \A y \in GapIds \ {lastop'.id} :
            IF lastop'.kind = "node" THEN NodeRec(y)' = NodeRec(y)
            ELSE WayBack(y)' = WayBack(y)]_vars

\* The files of the store.
StoreFiles ==
    << node_crd, node_crd_len, way_idx, way_idx_len, way_data, way_free,
       relation >>

\* C34: OsmBin::new and the drop of the handle it returned leave way.free
\* and the other files of the store as they were.
C34_ReadOnlyFrame ==
    [][(osmbin.mode = "Closed" /\ osmbin'.mode = "Read")
          \/ (osmbin.mode = "Read" /\ osmbin'.mode = "Closed")
       => StoreFiles' = StoreFiles]_vars

\* The ways whose slot of way.idx is not zero.
Slotted == { id \in FreeWayIds : WaySlot(id) # Zero(WAY_PTR_SIZE) }

SlotAddr(id) == bytes5_to_int(WaySlot(id))

\* The bytes of way.data of a record at addr with num_nodes nodes.
Extent(addr, num_nodes) ==
    (addr + 1)..(addr + NUM_NODES_SIZE + num_nodes * NODE_ID_SIZE)

\* The extent of the record the slot of a way points to, with the count
\* the record holds.
SlotExtent(id) ==
    Extent(SlotAddr(id),
           bytes2_to_int(ReadExact(way_data, SlotAddr(id), NUM_NODES_SIZE)))

\* The free list as pairs <<num_nodes, index, offset>>: that of the
\* writer while one is open, else the lines of way.free.
FreeList ==
    IF osmbin.mode = "Write"
    THEN UNION { { <<k, i, osmbin.way_free_data[k][i]>> :
                     i \in DOMAIN osmbin.way_free_data[k] } :
                 k \in DOMAIN osmbin.way_free_data }
    ELSE { <<way_free[i][2], i, way_free[i][1]>> : i \in DOMAIN way_free }

\* C35: whatever ways were written and deleted, over whatever sessions, no
\* two slots of way.idx point to the same record of way.data or to
\* records that overlap, no offset of the free list is pointed to by a
\* slot, and no offset is twice in the free list.
C35_SlotsAndFreeListDisjoint ==
    /\ \A a, b \in Slotted :
          a # b => SlotExtent(a) \cap SlotExtent(b) = {}
    /\ \A e \in FreeList : \A a \in Slotted : SlotAddr(a) # e[3]
    /\ \A e, f \in FreeList : e # f => e[3] # f[3]

\* A second writer session is open on a store with two ways stored and a
\* freed record in the free list.
C35_Witness ==
    /\ osmbin.mode = "Write"
    /\ w_left # None
    /\ Cardinality(Slotted) >= 2
    /\ FreeList # {}

\* ---------------------------------------------------------------------
\* Properties of the relation files
\* ---------------------------------------------------------------------

\* C36: relations of different ids are stored in different files: the
\* file of an id holds a relation of that id, and read_relation of an id
\* returns a relation of that id.
C36_DistinctFiles ==
    /\ \A id \in LongRelIds :
          rel_path(id) \in DOMAIN relation
              => json_to_relation(relation[rel_path(id)]).id = id
    /\ (lastop.op = "read" /\ lastop.kind = "relation" /\ ret # None)
          => ret[1].id = lastop.id

\* ---------------------------------------------------------------------
\* Properties of a minute that is processed again
\* ---------------------------------------------------------------------

\* The bbox pass of the change over the store as the update of the
\* change left it after k entities.
Reattempt(k) ==
    bbox_update(NewPass, stored_after_first(b_reader, b_change, k),
                b_change, 1)

PassDone == d_pos = -1 /\ Len(b_out) = Len(b_change)

\* C38: a minute processed again after its store update failed part-way
\* gives the same enriched change as it gave on a store the update had
\* not touched.
C38_ReattemptSame ==
    PassDone => \A k \in 1..Len(b_change) : Reattempt(k).out = b_out

\* ---------------------------------------------------------------------
\* Properties of the output trees
\* ---------------------------------------------------------------------

\* minute/state.txt of a tree.
StateOf(tree) ==
    IF tree = "planet" THEN planet_state
    ELSE IF tree = "bbox" THEN bbox_state
    ELSE region_state[tree]

\* C37: in every state of the pipeline, a minute processed again
\* included, the change file of the sequence that minute/state.txt of a
\* tree points to exists and is written to its end.
C37_StateImpliesChange ==
    \A tree \in Trees :
        (StateOf(tree) # None /\ StateOf(tree)[1] >= 1)
            => change_file[<<tree, StateOf(tree)[1]>>] = "complete"
====
